---- MODULE Spec2Model ----
(***************************************************************************)
(* Model of the ERP Attendance Intelligence calculation engine             *)
(* (src/calculations.js, object AttendanceCalculator).                     *)
(*                                                                         *)
(* JavaScript numbers are IEEE 754 binary64 values.  The engine divides,   *)
(* multiplies and subtracts them and then takes Math.ceil / Math.floor of  *)
(* the outcome, so the rounding of every single operation decides the      *)
(* integer the user is shown.  The model therefore computes with binary64  *)
(* values: a finite number is a record [s, m, e] standing for              *)
(* s * m * 2^e with s in {1,-1} and m a 53 bit mantissa, and every         *)
(* arithmetic operation rounds to nearest, ties to even, as the language   *)
(* prescribes.  Mantissas exceed the integers of the model checker, so     *)
(* they are little-endian sequences of 15 bit limbs.                       *)
(***************************************************************************)
EXTENDS Integers, Sequences, FiniteSets, TLC

(***************************************************************************)
(* Natural numbers of arbitrary size: little-endian limb sequences with    *)
(* no leading zero limb; the empty sequence is 0.                          *)
(***************************************************************************)
LimbBits == 15

Base == 2 ^ LimbBits

Pow2(n) == 2 ^ n

RECURSIVE BNorm(_)
BNorm(x) ==
    IF Len(x) = 0 THEN x
    ELSE IF x[Len(x)] = 0 THEN BNorm(SubSeq(x, 1, Len(x) - 1))
    ELSE x

Limb(x, i) == IF i <= Len(x) THEN x[i] ELSE 0

BFromNat(n) ==
    BNorm(<< n % Base, (n \div Base) % Base, n \div (Base * Base) >>)

\* A natural number below 2^31 as an integer of the model.
BToNat(x) == Limb(x, 1) + Base * Limb(x, 2) + Base * Base * Limb(x, 3)

RECURSIVE BitLenNat(_)
BitLenNat(n) == IF n = 0 THEN 0 ELSE 1 + BitLenNat(n \div 2)

BBitLen(x) ==
    IF Len(x) = 0 THEN 0 ELSE LimbBits * (Len(x) - 1) + BitLenNat(x[Len(x)])

RECURSIVE BCmpFrom(_, _, _)
BCmpFrom(x, y, i) ==
    IF i = 0 THEN 0
    ELSE IF x[i] > y[i] THEN 1
    ELSE IF x[i] < y[i] THEN -1
    ELSE BCmpFrom(x, y, i - 1)

\* -1, 0 or 1 as x < y, x = y, x > y.
BCmp(x, y) ==
    IF Len(x) > Len(y) THEN 1
    ELSE IF Len(x) < Len(y) THEN -1
    ELSE BCmpFrom(x, y, Len(x))

RECURSIVE BAddFrom(_, _, _, _, _)
BAddFrom(x, y, i, carry, acc) ==
    IF i > Len(x) /\ i > Len(y)
    THEN IF carry > 0 THEN Append(acc, carry) ELSE acc
    ELSE LET s == Limb(x, i) + Limb(y, i) + carry
         IN  BAddFrom(x, y, i + 1, s \div Base, Append(acc, s % Base))

BAdd(x, y) == BAddFrom(x, y, 1, 0, << >>)

RECURSIVE BSubFrom(_, _, _, _, _)
BSubFrom(x, y, i, borrow, acc) ==
    IF i > Len(x) THEN BNorm(acc)
    ELSE LET d == x[i] - Limb(y, i) - borrow
         IN  IF d < 0
             THEN BSubFrom(x, y, i + 1, 1, Append(acc, d + Base))
             ELSE BSubFrom(x, y, i + 1, 0, Append(acc, d))

\* x - y for x >= y.
BSub(x, y) == BSubFrom(x, y, 1, 0, << >>)

RECURSIVE BMulSmallFrom(_, _, _, _, _)
BMulSmallFrom(x, k, i, carry, acc) ==
    IF i > Len(x)
    THEN IF carry > 0 THEN Append(acc, carry) ELSE acc
    ELSE LET p == x[i] * k + carry
         IN  BMulSmallFrom(x, k, i + 1, p \div Base, Append(acc, p % Base))

\* x * k for 0 <= k < Base.
BMulSmall(x, k) == IF k = 0 THEN << >> ELSE BMulSmallFrom(x, k, 1, 0, << >>)

Zeros(n) == [i \in 1..n |-> 0]

\* x * 2^n.
BShl(x, n) ==
    IF Len(x) = 0 THEN x
    ELSE Zeros(n \div LimbBits) \o BMulSmall(x, Pow2(n % LimbBits))

RECURSIVE BDivSmallFrom(_, _, _, _, _)
BDivSmallFrom(x, k, i, rem, acc) ==
    IF i = 0 THEN [q |-> BNorm(acc), r |-> rem]
    ELSE LET cur == rem * Base + x[i]
         IN  BDivSmallFrom(x, k, i - 1, cur % k, << cur \div k >> \o acc)

\* Quotient and remainder of x by k, 0 < k <= Base.
BDivSmall(x, k) == BDivSmallFrom(x, k, Len(x), 0, << >>)

\* floor(x / 2^n).
BShr(x, n) ==
    LET drop == n \div LimbBits
    IN  IF drop >= Len(x) THEN << >>
        ELSE BDivSmall(SubSeq(x, drop + 1, Len(x)), Pow2(n % LimbBits)).q

\* x mod 2^n.
BLow(x, n) == BSub(x, BShl(BShr(x, n), n))

RECURSIVE BMulFrom(_, _, _, _)
BMulFrom(x, y, i, acc) ==
    IF i > Len(y) THEN acc
    ELSE BMulFrom(x, y, i + 1,
                  BAdd(acc, Zeros(i - 1) \o BMulSmall(x, y[i])))

BMul(x, y) ==
    IF Len(x) = 0 \/ Len(y) = 0 THEN << >> ELSE BNorm(BMulFrom(x, y, 1, << >>))

\* floor(x / 2^(2 * LimbBits)) as an integer of the model, for x < 2^61.
BTop(x) == Limb(x, 3) + Base * Limb(x, 4) + Base * Base * Limb(x, 5)

DigitBits == 7

DivDigits == 8

DivBits == DigitBits * DivDigits

\* Long division of n by d in digits of DigitBits bits, for d of 53 bits and
\* d <= n < 2d: q = floor(n * 2^DivBits / d) and whether a remainder is left.
\* Each digit is estimated from the leading limbs (the estimate is off by at
\* most one) and settled by comparison.
RECURSIVE BFracDivFrom(_, _, _, _)
BFracDivFrom(r, d, left, q) ==
    IF left = 0 THEN [q |-> q, sticky |-> Len(r) > 0]
    ELSE LET Take(rs, j) ==
                 BFracDivFrom(BSub(rs, BMulSmall(d, j)), d, left - 1,
                              BAdd(BMulSmall(q, Pow2(DigitBits)), BFromNat(j)))
             Settle(rs, est) ==
                 Take(rs, IF BCmp(BMulSmall(d, est + 1), rs) <= 0 THEN est + 1
                          ELSE IF BCmp(BMulSmall(d, est), rs) <= 0 THEN est
                          ELSE est - 1)
             Estimate(rs) == Settle(rs, BTop(rs) \div BTop(d))
         IN  Estimate(BMulSmall(r, Pow2(DigitBits)))

BFracDiv(n, d) == BFracDivFrom(BSub(n, d), d, DivDigits, << 1 >>)

(***************************************************************************)
(* JavaScript numbers.  A finite number is [s, m, e] = s * m * 2^e; a      *)
(* nonzero one has a mantissa m of exactly MantBits bits, zero is NumZero  *)
(* (the sign of zero is not kept: no comparison or Math.max of the engine  *)
(* tells -0 from 0).  The engine's numbers stay far from the overflow and  *)
(* subnormal ranges, which are not modelled.  Values that several places   *)
(* of an operator read are handed on as arguments of a local operator.     *)
(***************************************************************************)
MantBits == 53

NumZero == [s |-> 1, m |-> << >>, e |-> 0]

IsZero(x) == Len(x.m) = 0

\* s * q * 2^e rounded to nearest, ties to even; sticky says that the exact
\* value lies strictly above q * 2^e (q then has more than MantBits bits).
Round(s, q, e, sticky) ==
    LET Carry(inc, d) ==
            IF BBitLen(inc) > MantBits
            THEN [s |-> s, m |-> BShr(inc, 1), e |-> e + d + 1]
            ELSE [s |-> s, m |-> inc, e |-> e + d]
        \* top: the leading MantBits bits; c: the dropped bits against a half.
        Nearest(top, c, d) ==
            Carry(IF c > 0 \/ (c = 0 /\ (sticky \/ top[1] % 2 = 1))
                  THEN BAdd(top, << 1 >>) ELSE top, d)
        Fit(len) ==
            IF len = 0 THEN NumZero
            ELSE IF len <= MantBits
            THEN [s |-> s, m |-> BShl(q, MantBits - len),
                  e |-> e - (MantBits - len)]
            ELSE Nearest(BShr(q, len - MantBits),
                         BCmp(BLow(q, len - MantBits),
                              BShl(<< 1 >>, len - MantBits - 1)),
                         len - MantBits)
    IN  Fit(BBitLen(q))

\* An integer of the model (|n| < 2^31) as a number: exact.
FromInt(n) ==
    LET Exact(s, a) ==
            [s |-> s, m |-> BShl(BFromNat(a), MantBits - BitLenNat(a)),
             e |-> BitLenNat(a) - MantBits]
    IN  IF n = 0 THEN NumZero
        ELSE Exact(IF n < 0 THEN -1 ELSE 1, IF n < 0 THEN -n ELSE n)

NumNeg(x) == IF IsZero(x) THEN x ELSE [x EXCEPT !.s = -x.s]

\* x * y
NumMul(x, y) ==
    IF IsZero(x) \/ IsZero(y) THEN NumZero
    ELSE Round(x.s * y.s, BMul(x.m, y.m), x.e + y.e, FALSE)

\* x / y for y # 0
NumDiv(x, y) ==
    IF IsZero(x) THEN NumZero
    ELSE LET Quotient(r, shift) ==
                 Round(x.s * y.s, r.q, x.e - y.e - DivBits - shift, r.sticky)
             \* the dividend's mantissa is doubled when it is below the divisor's
             Scaled(ge) ==
                 Quotient(BFracDiv(IF ge THEN x.m ELSE BMulSmall(x.m, 2), y.m),
                          IF ge THEN 0 ELSE 1)
         IN  Scaled(BCmp(x.m, y.m) >= 0)

\* x + y
NumAdd(x, y) ==
    IF IsZero(x) THEN y
    ELSE IF IsZero(y) THEN x
    ELSE LET e == IF x.e < y.e THEN x.e ELSE y.e
             \* mx, my: the mantissas at the common exponent e; c compares them
             Signed(mx, my, c) ==
                 Round(IF x.s = y.s \/ c > 0 THEN x.s ELSE y.s,
                       IF x.s = y.s THEN BAdd(mx, my)
                       ELSE IF c >= 0 THEN BSub(mx, my) ELSE BSub(my, mx),
                       e, FALSE)
             Aligned(mx, my) == Signed(mx, my, BCmp(mx, my))
         IN  Aligned(BShl(x.m, x.e - e), BShl(y.m, y.e - e))

\* x - y
NumSub(x, y) == NumAdd(x, NumNeg(y))

Sgn(x) == IF IsZero(x) THEN 0 ELSE x.s

\* -1, 0 or 1 as x < y, x = y, x > y.
NumCmp(x, y) ==
    IF Sgn(x) # Sgn(y) THEN (IF Sgn(x) > Sgn(y) THEN 1 ELSE -1)
    ELSE IF Sgn(x) = 0 THEN 0
    ELSE IF x.e # y.e THEN (IF x.e > y.e THEN x.s ELSE -x.s)
    ELSE x.s * BCmp(x.m, y.m)

NumLt(x, y) == NumCmp(x, y) < 0

NumLe(x, y) == NumCmp(x, y) <= 0

NumGe(x, y) == NumCmp(x, y) >= 0

NumGt(x, y) == NumCmp(x, y) > 0

\* The integer part of |x| and whether |x| has a fractional part, |x| < 2^31.
Trunc(x) ==
    IF IsZero(x) THEN [ip |-> 0, frac |-> FALSE]
    ELSE IF x.e >= 0 THEN [ip |-> BToNat(BShl(x.m, x.e)), frac |-> FALSE]
    ELSE [ip |-> BToNat(BShr(x.m, -x.e)), frac |-> Len(BLow(x.m, -x.e)) > 0]

\* Math.ceil(x), as an integer of the model.
MathCeil(x) ==
    LET Ceil(t) ==
            IF Sgn(x) >= 0 THEN (IF t.frac THEN t.ip + 1 ELSE t.ip) ELSE -t.ip
    IN  Ceil(Trunc(x))

\* Math.floor(x), as an integer of the model.
MathFloor(x) ==
    LET Floor(t) ==
            IF Sgn(x) >= 0 THEN t.ip ELSE (IF t.frac THEN -(t.ip + 1) ELSE -t.ip)
    IN  Floor(Trunc(x))

\* Math.max(a, b) of integers and of numbers.
MathMax(a, b) == IF a > b THEN a ELSE b

NumMax(x, y) == IF NumCmp(x, y) > 0 THEN x ELSE y

\* A class count the engine returns: an integer, or Infinity.
Count(n) == [inf |-> FALSE, n |-> n]

Infinity == [inf |-> TRUE, n |-> 0]

(***************************************************************************)
(* The state.  attendanceMode is the one mutable field of the calculator.  *)
(* input is the data the popup hands to the engine: the scraped subjects   *)
(* (rawData.subjects, a mapping kept in insertion order, hence a           *)
(* sequence) and the threshold.  ret is the engine call that has just      *)
(* returned, with its arguments and its value.                             *)
(***************************************************************************)
\* attendanceMode: the calculator's mode; input, ret: the data at hand and
\* the last operation with what it returned; state, storage, views, pending:
\* the popup's state object, chrome.storage.local, the views that are
\* visible, and the fetches under way.
VARIABLES attendanceMode, input, ret, state, storage, views, pending

vars == << attendanceMode, input, ret, state, storage, views, pending >>

popup == << state, storage, views, pending >>

Modes == {"ERP", "TCBR_CORRECTED"}

(***************************************************************************)
(* AttendanceCalculator                                                    *)
(***************************************************************************)
\* getEffectiveAttended with 1 for 0 as the default of a missing tcbr
\* (line 47).
getEffectiveAttendedDefaultOne(attended, tcbr) ==
    IF attendanceMode = "TCBR_CORRECTED"
    THEN attended + (IF tcbr = 0 THEN 1 ELSE tcbr)
    ELSE attended

getEffectiveAttended(attended, tcbr) ==
    IF attendanceMode = "TCBR_CORRECTED" THEN attended + tcbr ELSE attended

\* calculateComponentPercentage without the guard of lines 70-73.
calculateComponentPercentageNoUpperGuard(attended, conducted, tcbr) ==
    IF conducted <= 0 THEN FromInt(100)
    ELSE LET Guard(percentage) ==
                 IF NumLt(percentage, NumZero) THEN NumZero ELSE percentage
         IN  Guard(NumMul(NumDiv(FromInt(getEffectiveAttended(attended, tcbr)),
                                 FromInt(conducted)), FromInt(100)))

\* calculateComponentPercentage with 0 as the value for no classes conducted.
calculateComponentPercentageZeroDefault(attended, conducted, tcbr) ==
    IF conducted <= 0 THEN NumZero
    ELSE LET Guard(percentage) ==
                 IF NumLt(percentage, NumZero) THEN NumZero
                 ELSE IF NumGt(percentage, FromInt(100)) THEN FromInt(100)
                 ELSE percentage
         IN  Guard(NumMul(NumDiv(FromInt(getEffectiveAttended(attended, tcbr)),
                                 FromInt(conducted)), FromInt(100)))

calculateComponentPercentage(attended, conducted, tcbr) ==
    IF conducted <= 0 THEN FromInt(100)
    ELSE LET effectiveAttended == getEffectiveAttended(attended, tcbr)
             Guard(percentage) ==
                 IF NumLt(percentage, NumZero) THEN NumZero
                 ELSE IF NumGt(percentage, FromInt(100)) THEN FromInt(100)
                 ELSE percentage
         IN  Guard(NumMul(NumDiv(FromInt(effectiveAttended), FromInt(conducted)),
                          FromInt(100)))

RECURSIVE SubjectPercentageLoop(_, _, _, _)
SubjectPercentageLoop(components, k, totalPercentage, validComponents) ==
    IF k > Len(components)
    THEN IF validComponents = 0 THEN FromInt(100)
         ELSE NumDiv(totalPercentage, FromInt(validComponents))
    ELSE LET comp == components[k]
         IN  IF comp.conducted > 0
             THEN SubjectPercentageLoop(components, k + 1,
                      NumAdd(totalPercentage,
                             calculateComponentPercentage(comp.attended,
                                 comp.conducted, comp.tcbr)),
                      validComponents + 1)
             ELSE SubjectPercentageLoop(components, k + 1, totalPercentage,
                                        validComponents)

\* calculateSubjectPercentage weighting each component by its class count:
\* the classes attended of all the classes conducted.
RECURSIVE WeightedLoop(_, _, _, _)
WeightedLoop(components, k, attended, conducted) ==
    IF k > Len(components)
    THEN IF conducted = 0 THEN FromInt(100)
         ELSE NumMul(NumDiv(FromInt(attended), FromInt(conducted)), FromInt(100))
    ELSE IF components[k].conducted > 0
    THEN WeightedLoop(components, k + 1,
             attended + getEffectiveAttended(components[k].attended,
                                             components[k].tcbr),
             conducted + components[k].conducted)
    ELSE WeightedLoop(components, k + 1, attended, conducted)

calculateSubjectPercentageWeighted(components) ==
    IF Len(components) = 0 THEN NumZero
    ELSE WeightedLoop(components, 1, 0, 0)

calculateSubjectPercentage(components) ==
    IF Len(components) = 0 THEN NumZero
    ELSE SubjectPercentageLoop(components, 1, NumZero, 0)

\* getStatus with > for >= in line 116.
getStatusStrict(percentage, threshold) ==
    IF NumGe(percentage, NumAdd(FromInt(threshold), FromInt(5))) THEN "safe"
    ELSE IF NumGt(percentage, FromInt(threshold)) THEN "borderline"
    ELSE "critical"

getStatus(percentage, threshold) ==
    IF NumGe(percentage, NumAdd(FromInt(threshold), FromInt(5))) THEN "safe"
    ELSE IF NumGe(percentage, FromInt(threshold)) THEN "borderline"
    ELSE "critical"

\* calculateDangerScore without the 50 of line 132.
calculateDangerScoreNoOffset(percentage, threshold) ==
    IF NumGe(percentage, FromInt(threshold))
    THEN NumMax(NumZero,
                NumSub(NumAdd(FromInt(threshold), FromInt(10)), percentage))
    ELSE NumSub(FromInt(threshold), percentage)

calculateDangerScore(percentage, threshold) ==
    IF NumGe(percentage, FromInt(threshold))
    THEN NumMax(NumZero,
                NumSub(NumAdd(FromInt(threshold), FromInt(10)), percentage))
    ELSE NumAdd(FromInt(50), NumSub(FromInt(threshold), percentage))

\* classesNeededToReachThreshold with attended for effectiveAttended in
\* line 165.
classesNeededRawAttended(attended, conducted, threshold, tcbr) ==
    LET effectiveAttended == getEffectiveAttended(attended, tcbr)
        currentPercentage == calculateComponentPercentage(attended, conducted, tcbr)
        Solve(numerator, denominator) ==
            IF NumLe(denominator, NumZero) THEN Infinity
            ELSE Count(MathMax(0, MathCeil(NumDiv(numerator, denominator))))
        Formula(thresholdDecimal) ==
            Solve(NumSub(NumMul(thresholdDecimal, FromInt(conducted)),
                         FromInt(effectiveAttended)),
                  NumSub(FromInt(1), thresholdDecimal))
    IN  IF NumGe(currentPercentage, FromInt(threshold)) THEN Count(0)
        ELSE IF threshold >= 100
        THEN IF attended < conducted THEN Infinity ELSE Count(0)
        ELSE Formula(NumDiv(FromInt(threshold), FromInt(100)))

classesNeededToReachThreshold(attended, conducted, threshold, tcbr) ==
    LET effectiveAttended == getEffectiveAttended(attended, tcbr)
        currentPercentage == calculateComponentPercentage(attended, conducted, tcbr)
        Solve(numerator, denominator) ==
            IF NumLe(denominator, NumZero) THEN Infinity
            ELSE Count(MathMax(0, MathCeil(NumDiv(numerator, denominator))))
        Formula(thresholdDecimal) ==
            Solve(NumSub(NumMul(thresholdDecimal, FromInt(conducted)),
                         FromInt(effectiveAttended)),
                  NumSub(FromInt(1), thresholdDecimal))
    IN  IF NumGe(currentPercentage, FromInt(threshold)) THEN Count(0)
        ELSE IF threshold >= 100
        THEN IF effectiveAttended < conducted THEN Infinity ELSE Count(0)
        ELSE Formula(NumDiv(FromInt(threshold), FromInt(100)))

\* classesCanSkip returning 0 for 100 when the threshold is 0 or less
\* (line 212).
classesCanSkipZeroUnbounded(attended, conducted, threshold, tcbr) ==
    LET effectiveAttended == getEffectiveAttended(attended, tcbr)
        currentPercentage == calculateComponentPercentage(attended, conducted, tcbr)
        Cap(canSkip) == IF canSkip > 100 THEN 100 ELSE MathMax(0, canSkip)
        Solve(numerator, denominator) ==
            IF NumLe(denominator, NumZero) THEN 100
            ELSE Cap(MathFloor(NumDiv(numerator, denominator)))
        Formula(thresholdDecimal) ==
            Solve(NumSub(FromInt(effectiveAttended),
                         NumMul(thresholdDecimal, FromInt(conducted))),
                  thresholdDecimal)
    IN  IF NumLt(currentPercentage, FromInt(threshold)) THEN 0
        ELSE IF threshold <= 0 THEN 0
        ELSE Formula(NumDiv(FromInt(threshold), FromInt(100)))

classesCanSkip(attended, conducted, threshold, tcbr) ==
    LET effectiveAttended == getEffectiveAttended(attended, tcbr)
        currentPercentage == calculateComponentPercentage(attended, conducted, tcbr)
        Cap(canSkip) == IF canSkip > 100 THEN 100 ELSE MathMax(0, canSkip)
        Solve(numerator, denominator) ==
            IF NumLe(denominator, NumZero) THEN 100
            ELSE Cap(MathFloor(NumDiv(numerator, denominator)))
        Formula(thresholdDecimal) ==
            Solve(NumSub(FromInt(effectiveAttended),
                         NumMul(thresholdDecimal, FromInt(conducted))),
                  thresholdDecimal)
    IN  IF NumLt(currentPercentage, FromInt(threshold)) THEN 0
        ELSE IF threshold <= 0 THEN 100
        ELSE Formula(NumDiv(FromInt(threshold), FromInt(100)))

\* The arithmetic of class counts that may be Infinity.
CountGt0(x) == x.inf \/ x.n > 0

\* The larger of the two for their sum.
CountAddLarger(x, y) ==
    IF x.inf \/ y.inf THEN Infinity ELSE Count(IF x.n > y.n THEN x.n ELSE y.n)

CountAdd(x, y) == IF x.inf \/ y.inf THEN Infinity ELSE Count(x.n + y.n)

\* The comparison of line 316 taken for positive n only.
IntLtCountPositive(n, y) == n > 0 /\ (y.inf \/ n < y.n)

\* n < y for an integer n.
IntLtCount(n, y) == y.inf \/ n < y.n

\* Math.min(x, n) for an integer n.
MathMinInt(x, n) == IF x.inf \/ x.n > n THEN n ELSE x.n

\* simulateMissNextClass with the drop taken as new - current (line 253).
simulateMissNextClassGain(attended, conducted, threshold, tcbr) ==
    LET newConducted == conducted + 1
        Outcome(currentPercentage, newPercentage, below) ==
            [currentPercentage |-> currentPercentage,
             newPercentage     |-> newPercentage,
             percentageDrop    |-> NumSub(newPercentage, currentPercentage),
             wouldFallBelowThreshold |->
                 ~below /\ NumLt(newPercentage, FromInt(threshold)),
             isAlreadyBelowThreshold |-> below]
        Compared(currentPercentage, newPercentage) ==
            Outcome(currentPercentage, newPercentage,
                    NumLt(currentPercentage, FromInt(threshold)))
    IN  Compared(calculateComponentPercentage(attended, conducted, tcbr),
                 calculateComponentPercentage(attended, newConducted, tcbr))

simulateMissNextClass(attended, conducted, threshold, tcbr) ==
    LET newConducted == conducted + 1
        Outcome(currentPercentage, newPercentage, below) ==
            [currentPercentage |-> currentPercentage,
             newPercentage     |-> newPercentage,
             percentageDrop    |-> NumSub(currentPercentage, newPercentage),
             wouldFallBelowThreshold |->
                 ~below /\ NumLt(newPercentage, FromInt(threshold)),
             isAlreadyBelowThreshold |-> below]
        \* currentPercentage >= threshold is the negation of
        \* currentPercentage < threshold: the engine has no NaN here
        Compared(currentPercentage, newPercentage) ==
            Outcome(currentPercentage, newPercentage,
                    NumLt(currentPercentage, FromInt(threshold)))
    IN  Compared(calculateComponentPercentage(attended, conducted, tcbr),
                 calculateComponentPercentage(attended, newConducted, tcbr))

\* One round of the loop over the components: the entry of componentData.
ComponentDatum(comp, threshold) ==
    LET Datum(compPercentage) ==
            [type           |-> comp.type,
             percentage     |-> compPercentage,
             classesNeeded  |-> classesNeededToReachThreshold(comp.attended,
                                    comp.conducted, threshold, comp.tcbr),
             canSkip        |-> classesCanSkip(comp.attended, comp.conducted,
                                    threshold, comp.tcbr),
             status         |-> getStatus(compPercentage, threshold),
             nextClassSimulation |-> simulateMissNextClass(comp.attended,
                                         comp.conducted, threshold, comp.tcbr),
             conducted      |-> comp.conducted,
             attended       |-> comp.attended,
             effectiveAttended |-> getEffectiveAttended(comp.attended, comp.tcbr),
             tcbr           |-> comp.tcbr]
    IN  Datum(calculateComponentPercentage(comp.attended, comp.conducted,
                                           comp.tcbr))

\* The loop's running values after the components k, k+1, ...
RECURSIVE SimulationLoop(_, _, _)
SimulationLoop(componentData, k, acc) ==
    IF k > Len(componentData) THEN acc
    ELSE LET d == componentData[k]
             weaker == NumLt(d.percentage, acc.weakestPercentage)
         IN  SimulationLoop(componentData, k + 1,
                 [weakestComponent  |-> IF weaker THEN d.type
                                        ELSE acc.weakestComponent,
                  weakestPercentage |-> IF weaker THEN d.percentage
                                        ELSE acc.weakestPercentage,
                  totalClassesNeeded |->
                      IF CountGt0(d.classesNeeded)
                      THEN CountAdd(acc.totalClassesNeeded, d.classesNeeded)
                      ELSE acc.totalClassesNeeded,
                  minCanSkip |-> IF IntLtCount(d.canSkip, acc.minCanSkip)
                                 THEN Count(d.canSkip) ELSE acc.minCanSkip])

calculateSubjectSimulation(components, threshold) ==
    IF Len(components) = 0
    THEN [status |-> "safe", classesNeeded |-> 0, canSkip |-> 0]
    ELSE LET Result(currentPercentage, componentData, acc) ==
                 [percentage    |-> currentPercentage,
                  status        |-> getStatus(currentPercentage, threshold),
                  dangerScore   |-> calculateDangerScore(currentPercentage,
                                                         threshold),
                  componentData |-> componentData,
                  weakestComponent   |-> acc.weakestComponent,
                  weakestPercentage  |-> acc.weakestPercentage,
                  totalClassesNeeded |-> MathMinInt(acc.totalClassesNeeded, 300),
                  canSkip |-> IF acc.minCanSkip.inf THEN 0
                              ELSE MathMinInt(acc.minCanSkip, 100)]
             Loop(componentData) ==
                 Result(calculateSubjectPercentage(components), componentData,
                        SimulationLoop(componentData, 1,
                            [weakestComponent   |-> "null",
                             weakestPercentage  |-> FromInt(100),
                             totalClassesNeeded |-> Count(0),
                             minCanSkip         |-> Infinity]))
         IN  Loop([k \in 1..Len(components) |->
                       ComponentDatum(components[k], threshold)])

\* The totals' loop: the running sums after the components k, k+1, ...
RECURSIVE TotalsLoop(_, _, _)
TotalsLoop(components, k, acc) ==
    IF k > Len(components) THEN acc
    ELSE LET comp == components[k]
         IN  TotalsLoop(components, k + 1,
                 [totalConducted |-> acc.totalConducted + comp.conducted,
                  totalAttended  |-> acc.totalAttended + comp.attended,
                  totalEffectiveAttended |-> acc.totalEffectiveAttended
                      + getEffectiveAttended(comp.attended, comp.tcbr)])

\* The entry processAllSubjects pushes for one subject.
ProcessSubject(subject, threshold) ==
    LET Entry(simulation, totals) ==
            simulation @@
            [courseCode     |-> subject.courseCode,
             courseName     |-> subject.courseName,
             components     |-> subject.components,
             totalConducted |-> totals.totalConducted,
             totalAttended  |-> totals.totalAttended,
             totalEffectiveAttended |-> totals.totalEffectiveAttended,
             totalAbsent    |-> totals.totalConducted - totals.totalAttended]
    IN  Entry(calculateSubjectSimulation(subject.components, threshold),
              TotalsLoop(subject.components, 1,
                  [totalConducted |-> 0, totalAttended |-> 0,
                   totalEffectiveAttended |-> 0]))

\* A rawData that is null or undefined.
null == [null |-> TRUE]

\* !rawData || !rawData.subjects
NoSubjects(rawData) == rawData = null \/ "subjects" \notin DOMAIN rawData

\* processAllSubjects pushing no entry for a subject without components.
processAllSubjectsSkipEmpty(rawData, threshold) ==
    IF NoSubjects(rawData) THEN << >>
    ELSE SelectSeq([k \in 1..Len(rawData.subjects) |->
                        ProcessSubject(rawData.subjects[k], threshold)],
                   LAMBDA e : Len(e.components) > 0)

processAllSubjects(rawData, threshold) ==
    IF NoSubjects(rawData) THEN << >>
    ELSE [k \in 1..Len(rawData.subjects) |->
              ProcessSubject(rawData.subjects[k], threshold)]

(***************************************************************************)
(* sortSubjects.  Array.prototype.sort is stable, and takes a comparator   *)
(* value of NaN (a key that an entry lacks) as 0; when the comparator is   *)
(* not consistent, the order of the result is implementation-defined.      *)
(***************************************************************************)
\* The values of sortBy: the three keys, no argument, and any other value.
SortKeys == {"danger", "name", "percentage", "undefined", "unknown"}

\* The course names in the order of localeCompare.
NameOrder == << "Calculus", "Circuits", "Physics", "Programming" >>

NameRank(name) == CHOOSE i \in 1..Len(NameOrder) : NameOrder[i] = name

\* The sign of a - b for the key of two entries, 0 when an entry lacks it.
KeyCompare(a, b, key) ==
    IF key \in DOMAIN a /\ key \in DOMAIN b THEN NumCmp(a[key], b[key]) ELSE 0

NameCompare(a, b) ==
    IF NameRank(a.courseName) < NameRank(b.courseName) THEN -1
    ELSE IF NameRank(a.courseName) > NameRank(b.courseName) THEN 1
    ELSE 0

\* The comparator with the default case comparing the names.
CompareDefaultName(a, b, sortBy) ==
    IF sortBy = "danger" THEN KeyCompare(b, a, "dangerScore")
    ELSE IF sortBy = "percentage" THEN KeyCompare(a, b, "percentage")
    ELSE NameCompare(a, b)

\* The sign of the comparator of the case of sortBy; no argument is
\* 'danger' (line 383), any other value is the default case.
Compare(a, b, sortBy) ==
    IF sortBy = "name" THEN NameCompare(a, b)
    ELSE IF sortBy = "percentage" THEN KeyCompare(a, b, "percentage")
    ELSE KeyCompare(b, a, "dangerScore")

\* The comparator is consistent on the entries: its equality and its order
\* are transitive.
Consistent(subjects, sortBy) ==
    \A i, j, k \in 1..Len(subjects) :
        /\ (/\ Compare(subjects[i], subjects[j], sortBy) = 0
            /\ Compare(subjects[j], subjects[k], sortBy) = 0)
               => Compare(subjects[i], subjects[k], sortBy) = 0
        /\ (/\ Compare(subjects[i], subjects[j], sortBy) < 0
            /\ Compare(subjects[j], subjects[k], sortBy) < 0)
               => Compare(subjects[i], subjects[k], sortBy) < 0

\* The insertion that puts x before the entries it equals.
RECURSIVE InsertBeforeEqual(_, _, _)
InsertBeforeEqual(sorted, x, sortBy) ==
    IF sorted = << >> THEN << x >>
    ELSE IF Compare(Head(sorted), x, sortBy) < 0
         THEN << Head(sorted) >> \o InsertBeforeEqual(Tail(sorted), x, sortBy)
         ELSE << x >> \o sorted

\* x inserted into a sorted list, after the entries it equals.
RECURSIVE Insert(_, _, _)
Insert(sorted, x, sortBy) ==
    IF sorted = << >> THEN << x >>
    ELSE IF Compare(Head(sorted), x, sortBy) <= 0
         THEN << Head(sorted) >> \o Insert(Tail(sorted), x, sortBy)
         ELSE << x >> \o sorted

\* The stable sort of the entries k, k+1, ... into the sorted list.
RECURSIVE StableSort(_, _, _, _)
StableSort(subjects, k, sorted, sortBy) ==
    IF k > Len(subjects) THEN sorted
    ELSE StableSort(subjects, k + 1, Insert(sorted, subjects[k], sortBy), sortBy)

\* The orders of the entries.
Orders(subjects) ==
    {[i \in 1..Len(subjects) |-> subjects[p[i]]] :
        p \in {q \in [1..Len(subjects) -> 1..Len(subjects)] :
                  \A i, j \in 1..Len(subjects) : q[i] = q[j] => i = j}}

\* The lists sortSubjects may return.
sortSubjects(subjects, sortBy) ==
    IF Consistent(subjects, sortBy)
    THEN {StableSort(subjects, 1, << >>, sortBy)}
    ELSE Orders(subjects)

(***************************************************************************)
(* calculateAggregateStats.  A sum that takes in the percentage of an      *)
(* entry that has none (undefined) is NaN, and stays NaN.                  *)
(***************************************************************************)
NaN == [nan |-> TRUE]

\* The loop's running values after the subjects k, k+1, ...
RECURSIVE AggregateLoop(_, _, _)
AggregateLoop(subjects, k, acc) ==
    IF k > Len(subjects) THEN acc
    ELSE LET subject == subjects[k]
             has == "percentage" \in DOMAIN subject
             lower == has /\ NumLt(subject.percentage, acc.lowestPercentage)
         IN  AggregateLoop(subjects, k + 1,
                 [totalPercentage |->
                      IF acc.totalPercentage = NaN \/ ~has THEN NaN
                      ELSE NumAdd(acc.totalPercentage, subject.percentage),
                  safeCount |-> acc.safeCount
                      + (IF subject.status = "safe" THEN 1 ELSE 0),
                  borderlineCount |-> acc.borderlineCount
                      + (IF subject.status = "borderline" THEN 1 ELSE 0),
                  criticalCount |-> acc.criticalCount
                      + (IF subject.status = "critical" THEN 1 ELSE 0),
                  mostAtRisk |-> IF lower THEN subject ELSE acc.mostAtRisk,
                  lowestPercentage |-> IF lower THEN subject.percentage
                                       ELSE acc.lowestPercentage])

\* The loop from its initial values (lines 421-426).
AggregateTotals(subjects) ==
    AggregateLoop(subjects, 1,
        [totalPercentage |-> NumZero, safeCount |-> 0, borderlineCount |-> 0,
         criticalCount |-> 0, mostAtRisk |-> null,
         lowestPercentage |-> FromInt(100)])

\* calculateAggregateStats without the case of the empty list (lines
\* 410-419): the average of no subjects is 0 / 0, which is NaN.
calculateAggregateStatsNoEmptyCase(subjects, threshold) ==
    LET Result(acc) ==
            [totalSubjects     |-> Len(subjects),
             averageAttendance |->
                 IF acc.totalPercentage = NaN \/ Len(subjects) = 0 THEN NaN
                 ELSE NumDiv(acc.totalPercentage, FromInt(Len(subjects))),
             safeCount         |-> acc.safeCount,
             borderlineCount   |-> acc.borderlineCount,
             criticalCount     |-> acc.criticalCount,
             mostAtRisk        |-> acc.mostAtRisk]
    IN  Result(AggregateTotals(subjects))

calculateAggregateStats(subjects, threshold) ==
    IF Len(subjects) = 0
    THEN [totalSubjects |-> 0, averageAttendance |-> NumZero, safeCount |-> 0,
          borderlineCount |-> 0, criticalCount |-> 0, mostAtRisk |-> null]
    ELSE LET Result(acc) ==
                 [totalSubjects     |-> Len(subjects),
                  averageAttendance |->
                      IF acc.totalPercentage = NaN THEN NaN
                      ELSE NumDiv(acc.totalPercentage, FromInt(Len(subjects))),
                  safeCount         |-> acc.safeCount,
                  borderlineCount   |-> acc.borderlineCount,
                  criticalCount     |-> acc.criticalCount,
                  mostAtRisk        |-> acc.mostAtRisk]
         IN  Result(AggregateTotals(subjects))

(***************************************************************************)
(* The inputs.  A row is what the content script scrapes for one component *)
(* of one subject.  ValidRows are the rows its validateRowData lets        *)
(* through, up to the bounds; SpecRows are the rows of the worked examples *)
(* (5/10, 40/50, 8/10, 10/10) and 29/50, whose percentage 58 the division  *)
(* does not hit; MalformedRows are rows the engine is not to crash on.     *)
(***************************************************************************)
MaxConducted == 5

MaxTcbr == 1

MaxComponents == 2

MaxSubjects == 2

Row(conducted, attended, tcbr) ==
    [conducted |-> conducted, attended |-> attended, tcbr |-> tcbr]

ValidRows ==
    {Row(c, a, b) : <<c, a, b>> \in
        {x \in (0..MaxConducted) \X (0..MaxConducted) \X (0..MaxTcbr) :
            x[2] <= x[1] /\ x[3] <= x[1]}}

SpecRows ==
    {Row(10, 5, 0), Row(50, 40, 0), Row(10, 8, 0), Row(10, 10, 0), Row(50, 29, 0)}

MalformedRows == {Row(2, 3, 0), Row(2, -1, 0), Row(-1, 0, 0), Row(0, 1, 1)}

Rows == ValidRows \cup SpecRows \cup MalformedRows

Thresholds == {0, 20, 58, 75, 80, 100, 101}

\* The rows and thresholds of the subjects with several components.
PoolRows == {Row(0, 0, 0), Row(2, 2, 0), Row(6, 3, 0), Row(3, 1, 1)}

PoolSubjects ==
    { << >>,
      << Row(2, 2, 0), Row(6, 3, 0) >>,
      << Row(3, 1, 1) >>,
      << Row(4, 1, 0), Row(3, 2, 0) >> }

PoolThresholds == {50, 75, 100}

TypeNames == << "L", "T", "P", "S" >>

CourseCodes == << "CS101", "MA102", "PH103", "EE104" >>

CourseNames == << "Programming", "Calculus", "Physics", "Circuits" >>

SeqsUpTo(S, n) == UNION {[1..k -> S] : k \in 0..n}

Component(row, k) ==
    [type |-> TypeNames[k], conducted |-> row.conducted,
     attended |-> row.attended, tcbr |-> row.tcbr]

Subject(rows, k) ==
    [courseCode |-> CourseCodes[k], courseName |-> CourseNames[k],
     components |-> [i \in 1..Len(rows) |-> Component(rows[i], i)]]

\* The popup's state.attendanceData and state.threshold.
Input(subjects, threshold) ==
    [rawData   |-> [subjects |-> [k \in 1..Len(subjects) |-> Subject(subjects[k], k)]],
     threshold |-> threshold]

\* The subjects of the worked example of the sort, whose percentages are
\* 90, 60, 60 and 30.
ExampleSubjects ==
    << << Row(10, 9, 0) >>, << Row(10, 6, 0) >>, << Row(5, 3, 0) >>,
       << Row(10, 3, 0) >> >>

\* A subject whose components differ in size and agree in percentage.
EvenSubject == << Row(2, 1, 0), Row(4, 2, 0) >>

\* The containers without subjects: null, and a scraped object that lacks
\* the subjects mapping.
NoSubjectsContainers == {null, [pageUrl |-> "erp"]}

Inputs ==
    {Input(<< << row >> >>, t) : row \in Rows, t \in Thresholds}
    \cup {Input(<< rows >>, t) :
              rows \in SeqsUpTo(PoolRows, MaxComponents), t \in PoolThresholds}
    \cup {Input(subjects, t) :
              subjects \in SeqsUpTo(PoolSubjects, MaxSubjects), t \in PoolThresholds}
    \cup {Input(<< rows >>, 0) : rows \in PoolSubjects}
    \cup {Input(ExampleSubjects, 75)}
    \cup {Input(<< EvenSubject >>, 75)}
    \cup {[rawData |-> container, threshold |-> 75] :
              container \in NoSubjectsContainers}

None == [op |-> "none"]

\* The popup's state as the script sets it (part_001 lines 52-60), an empty
\* chrome.storage.local, and the view the popup opens with.
DefaultState ==
    [theme |-> "light", threshold |-> 75, sortBy |-> "danger",
     attendanceMode |-> "ERP", attendanceData |-> null,
     processedSubjects |-> << >>, lastFetched |-> null]

EmptyStorage == [key \in {} |-> null]

InitialViews == {"initial"}

PopupAtRest ==
    /\ state = DefaultState
    /\ storage = EmptyStorage
    /\ views = InitialViews
    /\ pending = << >>

Init ==
    /\ attendanceMode = "ERP"
    /\ input \in Inputs
    /\ ret = None
    /\ PopupAtRest

\* The components of the input, as (subject, component) index pairs.
\* The subjects of the input, none when it has no subjects mapping.
SubjectsOf(in) == IF NoSubjects(in.rawData) THEN << >> ELSE in.rawData.subjects

ComponentsOf(in) ==
    {p \in (1..Len(SubjectsOf(in))) \X (1..MaxComponents + 1) :
        p[2] <= Len(SubjectsOf(in)[p[1]].components)}

ComponentAt(in, p) == SubjectsOf(in)[p[1]].components[p[2]]

\* The percentages the engine classifies and scores: those of the components
\* and of the subjects that have components.
Percentages(in) ==
    {calculateComponentPercentage(ComponentAt(in, p).attended,
         ComponentAt(in, p).conducted, ComponentAt(in, p).tcbr) :
         p \in ComponentsOf(in)}
    \cup {calculateSubjectPercentage(SubjectsOf(in)[k].components) :
              k \in {j \in 1..Len(SubjectsOf(in)) :
                        Len(SubjectsOf(in)[j].components) > 0}}

(***************************************************************************)
(* The operations.  The engine is synchronous: a call is made when no call *)
(* is under way, and returns at once.                                      *)
(***************************************************************************)
\* setMode leaving the mode as it is for a value that is no mode.
SetModeKeep(mode) ==
    /\ ret = None
    /\ attendanceMode' = IF mode = "ERP" \/ mode = "TCBR_CORRECTED" THEN mode
                          ELSE attendanceMode
    /\ ret' = [op |-> "setMode", mode |-> mode, was |-> attendanceMode,
               held |-> None]
    /\ UNCHANGED << input, popup >>

\* was: the mode before the call; held: the result of processAllSubjects the
\* caller holds (none here).
SetMode(mode) ==
    /\ ret = None
    /\ attendanceMode' = IF mode = "ERP" \/ mode = "TCBR_CORRECTED" THEN mode ELSE "ERP"
    /\ ret' = [op |-> "setMode", mode |-> mode, was |-> attendanceMode,
               held |-> None]
    /\ UNCHANGED << input, popup >>

\* setMode called by a caller that holds the result of processAllSubjects,
\* to process the same data again in the new mode.
SetModeHolding(mode) ==
    /\ ret.op = "processAllSubjects"
    /\ attendanceMode' = IF mode = "ERP" \/ mode = "TCBR_CORRECTED" THEN mode ELSE "ERP"
    /\ ret' = [op |-> "setMode", mode |-> mode, was |-> attendanceMode,
               held |-> ret]
    /\ UNCHANGED << input, popup >>

CallCalculateComponentPercentage ==
    /\ ret = None
    /\ \E p \in ComponentsOf(input) :
          LET comp == ComponentAt(input, p)
          IN  ret' = [op |-> "calculateComponentPercentage",
                      attended |-> comp.attended, conducted |-> comp.conducted,
                      tcbr |-> comp.tcbr,
                      value |-> calculateComponentPercentage(comp.attended,
                                    comp.conducted, comp.tcbr)]
    /\ UNCHANGED << attendanceMode, input, popup >>

CallClassesNeededToReachThreshold ==
    /\ ret = None
    /\ \E p \in ComponentsOf(input) :
          LET comp == ComponentAt(input, p)
          IN  ret' = [op |-> "classesNeededToReachThreshold",
                      attended |-> comp.attended, conducted |-> comp.conducted,
                      threshold |-> input.threshold, tcbr |-> comp.tcbr,
                      value |-> classesNeededToReachThreshold(comp.attended,
                                    comp.conducted, input.threshold, comp.tcbr)]
    /\ UNCHANGED << attendanceMode, input, popup >>

CallClassesCanSkip ==
    /\ ret = None
    /\ \E p \in ComponentsOf(input) :
          LET comp == ComponentAt(input, p)
          IN  ret' = [op |-> "classesCanSkip",
                      attended |-> comp.attended, conducted |-> comp.conducted,
                      threshold |-> input.threshold, tcbr |-> comp.tcbr,
                      value |-> classesCanSkip(comp.attended, comp.conducted,
                                    input.threshold, comp.tcbr)]
    /\ UNCHANGED << attendanceMode, input, popup >>

CallCalculateSubjectPercentage ==
    /\ ret = None
    /\ \E k \in 1..Len(SubjectsOf(input)) :
          LET components == SubjectsOf(input)[k].components
          IN  ret' = [op |-> "calculateSubjectPercentage",
                      components |-> components,
                      value |-> calculateSubjectPercentage(components)]
    /\ UNCHANGED << attendanceMode, input, popup >>

CallGetStatus ==
    /\ ret = None
    /\ \E percentage \in Percentages(input) :
          ret' = [op |-> "getStatus", percentage |-> percentage,
                  threshold |-> input.threshold,
                  value |-> getStatus(percentage, input.threshold)]
    /\ UNCHANGED << attendanceMode, input, popup >>

CallCalculateDangerScore ==
    /\ ret = None
    /\ \E percentage \in Percentages(input) :
          ret' = [op |-> "calculateDangerScore", percentage |-> percentage,
                  threshold |-> input.threshold,
                  value |-> calculateDangerScore(percentage, input.threshold)]
    /\ UNCHANGED << attendanceMode, input, popup >>

CallProcessAllSubjects ==
    /\ ret = None
    /\ ret' = [op |-> "processAllSubjects", rawData |-> input.rawData,
               threshold |-> input.threshold,
               value |-> processAllSubjects(input.rawData, input.threshold)]
    /\ UNCHANGED << attendanceMode, input, popup >>

\* processAllSubjects called again after setMode, by the caller that holds
\* its earlier result.
CallProcessAllSubjectsAgain ==
    /\ ret.op = "setMode"
    /\ ret.held # None
    /\ ret' = [op |-> "processAllSubjects", rawData |-> input.rawData,
               threshold |-> input.threshold,
               value |-> processAllSubjects(input.rawData, input.threshold)]
    /\ UNCHANGED << attendanceMode, input, popup >>

\* sortSubjects sorting the list it is given, without the copy of line 384.
CallSortSubjectsInPlace ==
    /\ ret.op = "processAllSubjects"
    /\ \E sortBy \in SortKeys :
          \E sorted \in sortSubjects(ret.value, sortBy) :
              ret' = [op |-> "sortSubjects", subjects |-> sorted,
                      sortBy |-> sortBy, value |-> sorted]
    /\ UNCHANGED << attendanceMode, input, popup >>

\* sortSubjects called with the list processAllSubjects has returned and a
\* value of sortBy, as renderResults calls it.  subjects: the list passed,
\* as it is after the call.
CallSortSubjects ==
    /\ ret.op = "processAllSubjects"
    /\ \E sortBy \in SortKeys :
          \E sorted \in sortSubjects(ret.value, sortBy) :
              ret' = [op |-> "sortSubjects", subjects |-> ret.value,
                      sortBy |-> sortBy, value |-> sorted]
    /\ UNCHANGED << attendanceMode, input, popup >>

\* calculateAggregateStats called with the list sortSubjects has returned,
\* as renderResults calls it.
CallCalculateAggregateStats ==
    /\ ret.op = "sortSubjects"
    /\ ret' = [op |-> "calculateAggregateStats", subjects |-> ret.value,
               threshold |-> input.threshold,
               value |-> calculateAggregateStats(ret.value, input.threshold)]
    /\ UNCHANGED << attendanceMode, input, popup >>

Return ==
    /\ ret # None
    /\ ret' = None
    /\ UNCHANGED << attendanceMode, input, popup >>

Next ==
    \/ \E mode \in Modes \cup {"AUTO"} : SetMode(mode)
    \/ CallCalculateComponentPercentage
    \/ CallClassesNeededToReachThreshold
    \/ CallClassesCanSkip
    \/ CallCalculateSubjectPercentage
    \/ CallGetStatus
    \/ CallCalculateDangerScore
    \/ CallProcessAllSubjects
    \/ CallSortSubjects
    \/ CallCalculateAggregateStats
    \/ Return

Spec == Init /\ [][Next]_vars

(***************************************************************************)
(* The popup.  A text is a sequence of characters.  The processed list the *)
(* popup keeps is written as the arguments it was computed from: the      *)
(* engine's computation of it is that of processAllSubjects and            *)
(* sortSubjects above.                                                     *)
(***************************************************************************)
DigitChars == << "0", "1", "2", "3", "4", "5", "6", "7", "8", "9" >>

IsDigit(c) == \E i \in 1..Len(DigitChars) : DigitChars[i] = c

DigitOf(c) == (CHOOSE i \in 1..Len(DigitChars) : DigitChars[i] = c) - 1

\* The value of the digits of the text from position k on, after acc.
RECURSIVE DigitsFrom(_, _, _)
DigitsFrom(text, k, acc) ==
    IF k > Len(text) \/ ~IsDigit(text[k]) THEN acc
    ELSE DigitsFrom(text, k + 1, acc * 10 + DigitOf(text[k]))

\* parseInt(text, 10): an optional sign and the digits that follow it; NaN
\* when no digit follows.
NotANumber == [nan |-> TRUE, n |-> 0]

parseInt(text) ==
    LET negative == Len(text) > 0 /\ text[1] = "-"
        first == IF Len(text) > 0 /\ text[1] \in {"-", "+"} THEN 2 ELSE 1
    IN  IF first > Len(text) \/ ~IsDigit(text[first]) THEN NotANumber
        ELSE [nan |-> FALSE,
              n   |-> (IF negative THEN -1 ELSE 1) * DigitsFrom(text, first, 0)]

\* The new mode setMode(mode) sets (calculations.js lines 29-37).
setMode(mode) == IF mode = "ERP" \/ mode = "TCBR_CORRECTED" THEN mode ELSE "ERP"

ViewNames == {"initial", "loading", "error", "results"}

\* showState hiding every view but the loading view.
showStateKeepLoading(visible, stateName) ==
    LET hidden == visible \ ((ViewNames \ {"loading"}) \cup {"statsBar"})
    IN  CASE stateName = "initial" -> (hidden \ {"refreshBtn"}) \cup {"initial"}
          [] stateName = "loading" -> hidden \cup {"loading"}
          [] stateName = "error"   -> (hidden \ {"refreshBtn"}) \cup {"error"}
          [] stateName = "results" -> hidden \cup {"results", "statsBar", "refreshBtn"}
          [] OTHER                 -> hidden

\* The elements visible after showState(stateName): the four views and the
\* stats bar are hidden, then the named view is shown, with the stats bar
\* and the refresh button for the results, without the refresh button for
\* the initial and the error view.
showState(visible, stateName) ==
    LET hidden == visible \ (ViewNames \cup {"statsBar"})
    IN  CASE stateName = "initial" -> (hidden \ {"refreshBtn"}) \cup {"initial"}
          [] stateName = "loading" -> hidden \cup {"loading"}
          [] stateName = "error"   -> (hidden \ {"refreshBtn"}) \cup {"error"}
          [] stateName = "results" -> hidden \cup {"results", "statsBar", "refreshBtn"}
          [] OTHER                 -> hidden

\* chrome.storage.local.set(items)
StorageSet(items, store) == items @@ store

\* The popup's state after loadSettings: a stored value is taken when it is
\* truthy (not 0, not the empty string).
loadSettings(st, store) ==
    LET Stored(key) == key \in DOMAIN store
    IN  [st EXCEPT
            !.theme = IF Stored("theme") /\ store.theme # "" THEN store.theme ELSE @,
            !.threshold = IF Stored("threshold") /\ store.threshold # 0
                          THEN store.threshold ELSE @,
            !.sortBy = IF Stored("sortBy") /\ store.sortBy # "" THEN store.sortBy ELSE @,
            !.attendanceMode = IF Stored("attendanceMode") /\ store.attendanceMode # ""
                               THEN store.attendanceMode ELSE @,
            !.attendanceData = IF Stored("lastData") THEN store.lastData.data ELSE @,
            !.lastFetched = IF Stored("lastData") THEN store.lastData.timestamp ELSE @]

\* chrome.storage.local after saveSettings.
saveSettings(st, store) ==
    StorageSet([theme |-> st.theme, threshold |-> st.threshold,
                sortBy |-> st.sortBy, attendanceMode |-> st.attendanceMode],
               store)

\* chrome.storage.local after saveAttendanceData.
saveAttendanceData(st, store) ==
    IF st.attendanceData = null THEN store
    ELSE StorageSet([lastData |-> [data |-> st.attendanceData,
                                   timestamp |-> st.lastFetched]],
                    store)

\* renderResults with data: the popup's state with the list processed in
\* the calculator's mode and sorted, and the view shown.
renderResults(st, visible) ==
    IF st.attendanceData = null
    THEN [state |-> st, views |-> showState(visible, "initial")]
    ELSE [state |-> [st EXCEPT !.processedSubjects =
                        [sorted    |-> st.sortBy,
                         processed |-> st.attendanceData,
                         threshold |-> st.threshold,
                         mode      |-> setMode(st.attendanceMode)]],
          views |-> showState(visible, "results")]

\* The popup is closed and opened again: init() on the script's defaults.
Reopen ==
    LET Opened(loaded) ==
            LET rendered == IF loaded.attendanceData = null
                            THEN [state |-> loaded, views |-> InitialViews]
                            ELSE renderResults(loaded, InitialViews)
            IN  /\ attendanceMode' = setMode(loaded.attendanceMode)
                /\ state' = rendered.state
                /\ views' = rendered.views
    IN  /\ Opened(loadSettings(DefaultState, storage))
        /\ pending' = << >>
        /\ ret' = [op |-> "init"]
        /\ UNCHANGED << input, storage >>

ToggleTheme ==
    LET Toggled(st) ==
            /\ state' = st
            /\ storage' = saveSettings(st, storage)
    IN  /\ Toggled([state EXCEPT !.theme = IF @ = "light" THEN "dark" ELSE "light"])
        /\ ret' = [op |-> "toggleTheme"]
        /\ UNCHANGED << attendanceMode, input, views, pending >>

\* The save button, with the text of the threshold field and the values of
\* the two selects.
HandleSaveSettings(thresholdText, newSort, newMode) ==
    LET newThreshold == parseInt(thresholdText)
        Saved(st) ==
            LET rendered == IF st.attendanceData = null
                            THEN [state |-> st, views |-> views]
                            ELSE renderResults(st, views)
            IN  /\ attendanceMode' = setMode(st.attendanceMode)
                /\ storage' = saveSettings(st, storage)
                /\ state' = rendered.state
                /\ views' = rendered.views
    IN  /\ IF newThreshold.nan \/ newThreshold.n < 0 \/ newThreshold.n > 100
           THEN UNCHANGED << attendanceMode, state, storage, views >>
           ELSE Saved([state EXCEPT !.threshold = newThreshold.n,
                                    !.sortBy = newSort,
                                    !.attendanceMode = newMode])
        /\ ret' = [op |-> "handleSaveSettings", thresholdText |-> thresholdText,
                   newSort |-> newSort, newMode |-> newMode]
        /\ UNCHANGED << input, pending >>

\* The texts of the threshold field, the options of the sort select.
ThresholdTexts ==
    { << "0" >>, << "7", "5" >>, << "1", "0", "0" >>, << "1", "0", "1" >>,
      << "-", "1" >>, << >>, << "8", "0", ".", "5" >> }

SortOptions == {"danger", "name", "percentage"}

NextSettings ==
    \/ \E thresholdText \in ThresholdTexts, newSort \in SortOptions, newMode \in Modes :
          HandleSaveSettings(thresholdText, newSort, newMode)
    \/ ToggleTheme
    \/ Reopen

InitSettings ==
    /\ attendanceMode = "ERP"
    /\ input = Input(<< >>, 75)
    /\ ret = [op |-> "init"]
    /\ PopupAtRest

SpecSettings == InitSettings /\ [][NextSettings]_vars

\* The engine under a caller that processes the same data in one mode after
\* the other.
NextModes ==
    \/ \E mode \in Modes \cup {"AUTO"} : SetMode(mode)
    \/ CallProcessAllSubjects
    \/ \E mode \in Modes \cup {"AUTO"} : SetModeHolding(mode)
    \/ CallProcessAllSubjectsAgain
    \/ Return

SpecModes == Init /\ [][NextModes]_vars

(***************************************************************************)
(* The content script.  A page is the attendance table as the script      *)
(* reads it: whether a table with the expected headers is there, and the   *)
(* body rows' cells under the mapped columns.  The count cells are texts   *)
(* (sequences of characters); the code, name and type cells are strings.   *)
(***************************************************************************)
\* getCellNumber: the text without the characters that are neither digits
\* nor '-', parsed as an integer, 0 when that is NaN.
getCellNumber(text) ==
    LET kept == SelectSeq(text, LAMBDA c : IsDigit(c) \/ c = "-")
        num  == parseInt(kept)
    IN  IF num.nan THEN 0 ELSE num.n

\* The course codes extractRowData refuses: the empty cell, the header's
\* 'S.No' in any case, and the cells made of digits only.
EmptyCode == ""

HeaderCodes == {"S.No", "s.no"}

DigitCodes == {"1", "12"}

\* toUpperCase on the texts of the type cell.
toUpperCase(s) ==
    CASE s = "l" -> "L"
      [] s = "t" -> "T"
      [] s = "p" -> "P"
      [] s = "s" -> "S"
      [] OTHER   -> s

\* extractRowData: null for a row without a course code, else the raw
\* facts of the row.  A type cell that is none of L, T, P, S becomes 'L'
\* (no cell of the pages here holds one of these letters as a word of its
\* own, so that the search through the row's text finds none).
extractRowData(cells) ==
    IF cells.courseCode = EmptyCode \/ cells.courseCode \in HeaderCodes
           \/ cells.courseCode \in DigitCodes
    THEN null
    ELSE [courseCode     |-> cells.courseCode,
          courseName     |-> cells.courseName,
          ltpsType       |-> IF toUpperCase(cells.ltpsType) \in {"L", "T", "P", "S"}
                             THEN toUpperCase(cells.ltpsType) ELSE "L",
          totalConducted |-> getCellNumber(cells.totalConducted),
          totalAttended  |-> getCellNumber(cells.totalAttended),
          tcbr           |-> getCellNumber(cells.tcbr)]

\* validateRowData: the four guards of the code, in its order.
validateRowData(rowData) ==
    /\ ~(rowData.totalConducted > 300)
    /\ ~(rowData.totalAttended > rowData.totalConducted)
    /\ ~(rowData.totalConducted < 0 \/ rowData.totalAttended < 0)
    /\ ~(rowData.tcbr > rowData.totalConducted)

\* components[ltpsType] = {...}: a new key goes last, a key that is there
\* keeps its place and takes the new counts.
PutComponent(components, rowData) ==
    LET comp == [type |-> rowData.ltpsType, conducted |-> rowData.totalConducted,
                 attended |-> rowData.totalAttended, tcbr |-> rowData.tcbr]
        Held(i) == components[i].type = rowData.ltpsType
    IN  IF \E i \in 1..Len(components) : Held(i)
        THEN [i \in 1..Len(components) |-> IF Held(i) THEN comp ELSE components[i]]
        ELSE Append(components, comp)

\* The subjects mapping after a valid row: the row's subject is created
\* when its code is new, and takes the row's component.  (The rows of one
\* course carry one name here, so that the name is never replaced by a
\* longer one.)
PutRow(subjects, rowData) ==
    LET Held(i) == subjects[i].courseCode = rowData.courseCode
        created == IF \E i \in 1..Len(subjects) : Held(i) THEN subjects
                   ELSE Append(subjects, [courseCode |-> rowData.courseCode,
                                          courseName |-> rowData.courseName,
                                          components |-> << >>])
    IN  [i \in 1..Len(created) |->
            IF created[i].courseCode = rowData.courseCode
            THEN [created[i] EXCEPT !.components = PutComponent(@, rowData)]
            ELSE created[i]]

\* The loop over the body rows, from row k on.
RECURSIVE ScrapeLoop(_, _, _)
ScrapeLoop(rows, k, subjects) ==
    IF k > Len(rows) THEN subjects
    ELSE LET rowData == extractRowData(rows[k])
         IN  IF rowData = null THEN ScrapeLoop(rows, k + 1, subjects)
             ELSE IF ~validateRowData(rowData) THEN ScrapeLoop(rows, k + 1, subjects)
             ELSE ScrapeLoop(rows, k + 1, PutRow(subjects, rowData))

NoTableMessage ==
    "Could not find attendance table on this page. Please ensure you are on the correct ERP attendance page."

NoDataMessage ==
    "No valid attendance data found. The table may be empty or in an unexpected format."

\* scrapeAttendanceData at the time clock: the scraped object, or the
\* message of the error it throws.
scrapeAttendanceData(page, clock) ==
    IF ~page.table THEN [thrown |-> NoTableMessage]
    ELSE LET subjects == ScrapeLoop(page.rows, 1, << >>)
         IN  IF Len(subjects) = 0 THEN [thrown |-> NoDataMessage]
             ELSE [subjects  |-> subjects,
                   scrapedAt |-> [time |-> clock],
                   pageUrl   |-> page.url]

\* The listener's answer to the popup's 'fetchAttendance' message.
onMessage(page, clock) ==
    LET scraped == scrapeAttendanceData(page, clock)
    IN  IF "thrown" \in DOMAIN scraped
        THEN [success |-> FALSE, error |-> scraped.thrown]
        ELSE [success |-> TRUE, data |-> scraped]

\* The texts of the count cells, and the pages built of them.
NumberTexts ==
    { << "5" >>, << "1", "0" >>, << "0" >>, << "-", "3" >>, << >>,
      << "4", "0", "0" >>, << "3", " ", "%" >> }

TypeTexts == {"L", "p", "Lab"}

Cells(code, name, type, conducted, attended, tcbr) ==
    [courseCode |-> code, courseName |-> name, ltpsType |-> type,
     totalConducted |-> conducted, totalAttended |-> attended, tcbr |-> tcbr]

ErpUrl == "https://newerp.kluniversity.in/attendance"

Page(rows) == [table |-> TRUE, rows |-> rows, url |-> ErpUrl]

\* A row that passes every guard, for the pages of more than one row.
GoodCells(code, name, type) == Cells(code, name, type, << "1", "0" >>, << "5" >>, << "0" >>)

Pages ==
    {Page(<< Cells("CS101", "Programming", type, c, a, t) >>) :
        type \in TypeTexts, c \in NumberTexts, a \in NumberTexts, t \in NumberTexts}
    \cup {Page(<< Cells(code, "Programming", "L", << "1", "0" >>, << "5" >>, << "0" >>) >>) :
              code \in {EmptyCode} \cup HeaderCodes \cup DigitCodes}
    \cup {Page(<< GoodCells("CS101", "Programming", "L"), second >>) :
              second \in {GoodCells("CS101", "Programming", "P"),
                          GoodCells("MA102", "Calculus", "L"),
                          Cells("CS101", "Programming", "L", << "5" >>, << "5" >>, << >>),
                          Cells("CS101", "Programming", "T", << "5" >>, << "1", "0" >>, << >>),
                          Cells("MA102", "Calculus", "L", << "5" >>, << "0" >>, << "-", "3" >>)}}
    \cup {Page(<< >>), [table |-> FALSE, rows |-> << >>, url |-> ErpUrl]}

Clocks == {1, 2}

\* The content script answers the popup's message.
OnFetchAttendance(clock) ==
    /\ ret = None
    /\ ret' = [op |-> "fetchAttendance", response |-> onMessage(input, clock)]
    /\ UNCHANGED << attendanceMode, input, popup >>

NextScrape ==
    \/ \E clock \in Clocks : OnFetchAttendance(clock)
    \/ Return

InitScrape ==
    /\ attendanceMode = "ERP"
    /\ input \in Pages
    /\ ret = None
    /\ PopupAtRest

SpecScrape == InitScrape /\ [][NextScrape]_vars

(***************************************************************************)
(* The subject cards of the popup.  A card is the text of its action       *)
(* message and of its component items; the rest of the card copies fields  *)
(* of the subject.                                                         *)
(***************************************************************************)
\* createComponentItem: the text of the item's action span.
createComponentItem(compData) ==
    IF CountGt0(compData.classesNeeded)
    THEN IF compData.classesNeeded = Infinity
         THEN [action |-> "impossible"]
         ELSE [action |-> "needed", n |-> MathMinInt(compData.classesNeeded, 100)]
    ELSE IF compData.canSkip > 0
         THEN [action |-> "skippable",
               n |-> IF compData.canSkip > 50 THEN 50 ELSE compData.canSkip]
         ELSE [action |-> "on-track"]

\* createSubjectCard: a subject without components has no percentage, and
\* subject.percentage.toFixed throws; else the action message is chosen by
\* the subject's status, percentage and totalClassesNeeded (a number, which
\* the card compares with Infinity).
createSubjectCard(subject, threshold) ==
    IF "percentage" \notin DOMAIN subject THEN [thrown |-> "TypeError"]
    ELSE LET needed == Count(subject.totalClassesNeeded)
         IN  [action |-> IF subject.status = "critical"
                            \/ NumLt(subject.percentage, FromInt(threshold))
                         THEN IF needed = Infinity
                              THEN [kind |-> "impossible"]
                              ELSE [kind   |-> "attend",
                                    capped |-> needed.n > 200,
                                    n      |-> IF needed.n > 200 THEN 200
                                               ELSE needed.n]
                         ELSE [kind |-> "skip",
                               n    |-> IF subject.canSkip > 100 THEN 100
                                        ELSE subject.canSkip],
              items  |-> [k \in 1..Len(subject.componentData) |->
                             createComponentItem(subject.componentData[k])]]

\* renderSubjectCards creates the card of one of the processed subjects.
CallCreateSubjectCard ==
    /\ ret.op = "processAllSubjects"
    /\ \E k \in 1..Len(ret.value) :
          ret' = [op |-> "createSubjectCard", subject |-> ret.value[k],
                  threshold |-> input.threshold,
                  value |-> createSubjectCard(ret.value[k], input.threshold)]
    /\ UNCHANGED << attendanceMode, input, popup >>

NextCards ==
    \/ \E mode \in Modes : SetMode(mode)
    \/ CallProcessAllSubjects
    \/ CallCreateSubjectCard
    \/ Return

SpecCards == Init /\ [][NextCards]_vars

(***************************************************************************)
(* The popup fetching.  fetchAttendanceData runs up to its first await,    *)
(* then again when chrome.tabs.query answers, then when the content        *)
(* script answers; what the popup does in between (another click on a      *)
(* fetch button, the save button, the theme toggle, closing the popup)     *)
(* interleaves with these steps.  pending holds the fetches that wait for  *)
(* an answer, each with the await it is at.  input is the page of the      *)
(* active tab.                                                             *)
(***************************************************************************)
MaxPending == 2

\* The active tab chrome.tabs.query finds: none, a tab on another site, a
\* tab on the ERP site.
TabKinds == {"none", "other", "erp"}

\* What chrome.tabs.sendMessage does: it rejects (no content script in the
\* tab), resolves with undefined, or resolves with the listener's answer.
AnswerKinds == {"rejects", "undefined", "answers"}

Remove(seq, i) == [k \in 1..(Len(seq) - 1) |-> IF k < i THEN seq[k] ELSE seq[k + 1]]

\* The catch block that also forgets the data of the last extraction.
FetchFailsForgetting(i, message) ==
    /\ views' = showState(views, "error")
    /\ pending' = Remove(pending, i)
    /\ state' = [state EXCEPT !.attendanceData = null, !.lastFetched = null]
    /\ ret' = [op |-> "fetchAttendanceData", step |-> "failed", error |-> message]
    /\ UNCHANGED << attendanceMode, input, storage >>

\* The catch block of fetch i: the message is written and the error view
\* shown.
FetchFails(i, message) ==
    /\ views' = showState(views, "error")
    /\ pending' = Remove(pending, i)
    /\ ret' = [op |-> "fetchAttendanceData", step |-> "failed", error |-> message]
    /\ UNCHANGED << attendanceMode, input, state, storage >>

\* The end of the try block of fetch i: the data is stored in the state,
\* saved, and rendered.
FetchSucceeds(i, response, now) ==
    LET Stored(st) ==
            LET rendered == renderResults(st, views)
            IN  /\ attendanceMode' = setMode(st.attendanceMode)
                /\ storage' = saveAttendanceData(st, storage)
                /\ state' = rendered.state
                /\ views' = rendered.views
    IN  /\ Stored([state EXCEPT !.attendanceData = response.data,
                                !.lastFetched = [time |-> now]])
        /\ pending' = Remove(pending, i)
        /\ ret' = [op |-> "fetchAttendanceData", step |-> "succeeded"]
        /\ UNCHANGED input

\* A click on the fetch, the retry or the refresh button: the loading view
\* is shown and chrome.tabs.query awaited.
FetchAttendanceData ==
    /\ Len(pending) < MaxPending
    /\ views' = showState(views, "loading")
    /\ pending' = Append(pending, [pc |-> "query"])
    /\ ret' = [op |-> "fetchAttendanceData", step |-> "start"]
    /\ UNCHANGED << attendanceMode, input, state, storage >>

\* chrome.tabs.query answers fetch i with the active tab.
QueryReturns(i, tab) ==
    /\ i \in 1..Len(pending)
    /\ pending[i].pc = "query"
    /\ CASE tab = "none"  -> FetchFails(i, "No active tab found.")
         [] tab = "other" ->
                FetchFails(i, "Please navigate to the KL University ERP attendance page first.")
         [] OTHER ->
                /\ pending' = [pending EXCEPT ![i].pc = "message"]
                /\ ret' = [op |-> "fetchAttendanceData", step |-> "query"]
                /\ UNCHANGED << attendanceMode, input, state, storage, views >>

\* chrome.tabs.sendMessage answers fetch i; clock is the time of the
\* scrape and now the time of the popup.
MessageReturns(i, answer, clock, now) ==
    /\ i \in 1..Len(pending)
    /\ pending[i].pc = "message"
    /\ CASE answer = "rejects" ->
                FetchFails(i, "ERP page not ready. Please refresh the page and try again.")
         [] answer = "undefined" ->
                FetchFails(i, "Could not communicate with the page. Please refresh and try again.")
         [] OTHER ->
                LET response == onMessage(input, clock)
                IN  IF ~response.success THEN FetchFails(i, response.error)
                    ELSE FetchSucceeds(i, response, now)

\* The pages of the active tab: one with an attendance row, one with a row
\* whose tcbr is negative, one without the table.
PopupPages ==
    {Page(<< GoodCells("CS101", "Programming", "L") >>),
     Page(<< Cells("MA102", "Calculus", "L", << "5" >>, << "0" >>, << "-", "3" >>) >>),
     [table |-> FALSE, rows |-> << >>, url |-> ErpUrl]}

NextPopup ==
    \/ FetchAttendanceData
    \/ \E i \in 1..MaxPending, tab \in TabKinds : QueryReturns(i, tab)
    \/ \E i \in 1..MaxPending, answer \in AnswerKinds, clock \in Clocks, now \in Clocks :
          MessageReturns(i, answer, clock, now)
    \/ \E thresholdText \in {<< "8", "0" >>, << "1", "0", "1" >>},
          newMode \in Modes :
          HandleSaveSettings(thresholdText, "name", newMode)
    \/ ToggleTheme
    \/ Reopen

InitPopup ==
    /\ attendanceMode = "ERP"
    /\ input \in PopupPages
    /\ ret = [op |-> "init"]
    /\ PopupAtRest

SpecPopup == InitPopup /\ [][NextPopup]_vars

(***************************************************************************)
(* The properties.  They read the call that has just returned (ret) and    *)
(* compare its value with what the specification says of it.  Where the    *)
(* specification speaks of rational numbers, the comparison is made in     *)
(* integers (100 * a >= t * c for a / c >= t / 100), not in the numbers of *)
(* the engine.                                                             *)
(***************************************************************************)
\* The row's counts in the range the specification gives for scraped
\* rows: none negative, conducted at most 300, attended and tcbr at most
\* conducted.
ScrapedRow(r) ==
    /\ r.conducted >= 0 /\ r.conducted <= 300
    /\ 0 <= r.attended /\ r.attended <= r.conducted
    /\ 0 <= r.tcbr /\ r.tcbr <= r.conducted

\* The effective attended count of the call that has returned.
RetEffective == getEffectiveAttended(ret.attended, ret.tcbr)

\* The percentage of the row of the call that has returned.
RetPercentage ==
    calculateComponentPercentage(ret.attended, ret.conducted, ret.tcbr)

\* C1: in both modes, for conducted > 0, 0 <= attended <= conducted and
\* 0 <= tcbr <= conducted, calculateComponentPercentage returns a value
\* between 0 and 100.
C1_PercentageInRange ==
    (ret.op = "calculateComponentPercentage" /\ ScrapedRow(ret)
        /\ ret.conducted > 0)
    => (NumGe(ret.value, NumZero) /\ NumLe(ret.value, FromInt(100)))

\* C1, its case: in the TCBR-corrected mode the effective count of a scraped
\* row exceeds its classes conducted, and the percentage returned is 100.
C1_Witness ==
    /\ ret.op = "calculateComponentPercentage"
    /\ ScrapedRow(ret)
    /\ attendanceMode = "TCBR_CORRECTED"
    /\ ret.attended + ret.tcbr > ret.conducted
    /\ ret.value = FromInt(100)

\* C2: calculateComponentPercentage returns exactly 100 whenever
\* conducted <= 0, whatever attended and tcbr are, in both modes.
C2_NoClassesIsHundred ==
    (ret.op = "calculateComponentPercentage" /\ ret.conducted <= 0)
    => ret.value = FromInt(100)

\* C2, its case: no class conducted, yet classes counted as attended, in the
\* TCBR-corrected mode.
C2_Witness ==
    /\ ret.op = "calculateComponentPercentage"
    /\ ret.conducted <= 0
    /\ ret.attended > 0 /\ ret.tcbr > 0
    /\ attendanceMode = "TCBR_CORRECTED"
    /\ ret.value = FromInt(100)

\* C3: classesNeededToReachThreshold returns 0 if and only if the percentage
\* of the row is at least the threshold (stated for scraped rows and the
\* thresholds 0..100 of the settings).
C3_ZeroIffAtThreshold ==
    (ret.op = "classesNeededToReachThreshold" /\ ScrapedRow(ret)
        /\ ret.threshold \in 0..100)
    => (ret.value = Count(0) <=> NumGe(RetPercentage, FromInt(ret.threshold)))

\* C3, the failing call: 29 of 50 at the threshold 58.  The percentage is
\* below 58 and the classes needed are 0.
C3_FailingCall ==
    /\ ret.op = "classesNeededToReachThreshold"
    /\ ret.attended = 29 /\ ret.conducted = 50 /\ ret.tcbr = 0
    /\ ret.threshold = 58
    /\ NumLt(RetPercentage, FromInt(58))
    /\ ret.value = Count(0)

\* C4: for threshold t < 100, conducted c > 0 and effective attended a with
\* a / c * 100 < t, classesNeededToReachThreshold returns the least x >= 0
\* with (a + x) / (c + x) >= t / 100: x satisfies it and x - 1 does not.
C4_LeastClassesNeeded ==
    (ret.op = "classesNeededToReachThreshold" /\ ScrapedRow(ret)
        /\ ret.threshold \in 0..99 /\ ret.conducted > 0
        /\ 100 * RetEffective < ret.threshold * ret.conducted)
    => /\ ~ret.value.inf
       /\ ret.value.n >= 0
       /\ 100 * (RetEffective + ret.value.n)
              >= ret.threshold * (ret.conducted + ret.value.n)
       /\ 100 * (RetEffective + ret.value.n - 1)
              < ret.threshold * (ret.conducted + ret.value.n - 1)

\* C4, the failing call: 0 of 1 at the threshold 80 returns 5, and 4 classes
\* reach the threshold: (0 + 4) / (1 + 4) = 80 / 100.
C4_FailingCall ==
    /\ ret.op = "classesNeededToReachThreshold"
    /\ ret.attended = 0 /\ ret.conducted = 1 /\ ret.tcbr = 0
    /\ ret.threshold = 80
    /\ ret.value = Count(5)
    /\ 100 * (0 + 4) >= 80 * (1 + 4)

\* C5 as stated: for threshold >= 100 and conducted > 0,
\* classesNeededToReachThreshold returns 0 if the effective attended count
\* equals conducted, and Infinity otherwise.
C5_ZeroOnlyWhenEqual ==
    (ret.op = "classesNeededToReachThreshold" /\ ScrapedRow(ret)
        /\ ret.threshold >= 100 /\ ret.conducted > 0)
    => ret.value = (IF RetEffective = ret.conducted THEN Count(0) ELSE Infinity)

\* C5, amended: for threshold >= 100 and conducted > 0,
\* classesNeededToReachThreshold returns 0 if the effective attended count is
\* at least conducted, and Infinity if it is below.
C5_ZeroWhenNoClassMissed ==
    (ret.op = "classesNeededToReachThreshold" /\ ret.threshold >= 100
        /\ ret.conducted > 0)
    => ret.value = (IF RetEffective >= ret.conducted THEN Count(0) ELSE Infinity)

\* C5, its case: a threshold above 100 in the TCBR-corrected mode, where the
\* effective count of a scraped row reaches conducted through its tcbr; and
\* a row with a class missed, for which Infinity is returned.
C5_Witness ==
    /\ ret.op = "classesNeededToReachThreshold"
    /\ ScrapedRow(ret)
    /\ ret.threshold > 100 /\ ret.conducted > 0
    /\ attendanceMode = "TCBR_CORRECTED"
    /\ ret.attended < ret.conducted
    /\ RetEffective >= ret.conducted
    /\ ret.value = Count(0)

\* C6: for 0 < threshold t <= 100 and conducted c > 0, classesCanSkip returns
\* 0 when the percentage is below t, and otherwise min(100, X) for X the
\* greatest x >= 0 with a / (c + x) >= t / 100, a the effective attended
\* count: X = floor(100 * a / t) - c.
C6_MostClassesCanSkip ==
    (ret.op = "classesCanSkip" /\ ScrapedRow(ret)
        /\ ret.threshold \in 1..100 /\ ret.conducted > 0)
    => ret.value =
           (IF NumLt(RetPercentage, FromInt(ret.threshold)) THEN 0
            ELSE IF (100 * RetEffective) \div ret.threshold - ret.conducted > 100
            THEN 100
            ELSE (100 * RetEffective) \div ret.threshold - ret.conducted)

\* C6, the failing call: 1 of 2 at the threshold 20 returns 2, and 3 classes
\* can be skipped: 1 / (2 + 3) = 20 / 100.
C6_FailingCall ==
    /\ ret.op = "classesCanSkip"
    /\ ret.attended = 1 /\ ret.conducted = 2 /\ ret.tcbr = 0
    /\ ret.threshold = 20
    /\ ret.value = 2
    /\ 100 * 1 >= 20 * (2 + 3)

\* The numbers of a sequence as natural numbers in units of 2^e, summed.
Units(x, e) == IF IsZero(x) THEN << >> ELSE BShl(x.m, x.e - e)

RECURSIVE UnitsSum(_, _, _)
UnitsSum(xs, e, k) ==
    IF k > Len(xs) THEN << >>
    ELSE BAdd(Units(xs[k], e), UnitsSum(xs, e, k + 1))

RECURSIVE LeastExponent(_, _)
LeastExponent(xs, k) ==
    IF k > Len(xs) THEN 0
    ELSE LET Least(rest) == IF xs[k].e < rest THEN xs[k].e ELSE rest
         IN  Least(LeastExponent(xs, k + 1))

\* |x - y| of natural numbers.
BDist(x, y) == IF BCmp(x, y) >= 0 THEN BSub(x, y) ELSE BSub(y, x)

\* x is the mean of the non-negative numbers ps up to the rounding of the
\* engine's additions and division: |Len(ps) * x - (ps[1] + ... )| < 2^-40.
IsMeanOf(x, ps) ==
    LET Small(dist, e) == Len(dist) = 0 \/ BBitLen(dist) + e <= -40
        Near(e) ==
            Small(BDist(BMulSmall(Units(x, e), Len(ps)), UnitsSum(ps, e, 1)), e)
    IN  Near(LeastExponent(<< x >> \o ps, 1))

\* The indices of the components that count: those with classes conducted.
RECURSIVE ValidIndices(_, _)
ValidIndices(components, k) ==
    IF k > Len(components) THEN << >>
    ELSE IF components[k].conducted > 0
    THEN << k >> \o ValidIndices(components, k + 1)
    ELSE ValidIndices(components, k + 1)

ValidPercentages(components) ==
    LET PercentagesAt(ks) ==
            [i \in 1..Len(ks) |->
                calculateComponentPercentage(components[ks[i]].attended,
                    components[ks[i]].conducted, components[ks[i]].tcbr)]
    IN  PercentagesAt(ValidIndices(components, 1))

\* C7: for a subject that has components, calculateSubjectPercentage returns
\* the unweighted mean of the percentages of exactly the components with
\* conducted > 0 (up to the rounding of the number arithmetic), and 100 when
\* no component has conducted > 0.
C7_UnweightedMean ==
    (ret.op = "calculateSubjectPercentage" /\ Len(ret.components) > 0)
    => IF Len(ValidIndices(ret.components, 1)) = 0
       THEN ret.value = FromInt(100)
       ELSE IsMeanOf(ret.value, ValidPercentages(ret.components))

\* C7, its case: components at 100 % and at 50 % with different class counts
\* give 75 %.
C7_Witness ==
    /\ ret.op = "calculateSubjectPercentage"
    /\ Len(ret.components) = 2
    /\ ret.components[1].conducted > 0
    /\ ret.components[1].conducted < ret.components[2].conducted
    /\ ValidPercentages(ret.components) = << FromInt(100), FromInt(50) >>
    /\ ret.value = FromInt(75)

\* C7, its other case: components, none with a class conducted.
C7_WitnessNoData ==
    /\ ret.op = "calculateSubjectPercentage"
    /\ Len(ret.components) > 0
    /\ Len(ValidIndices(ret.components, 1)) = 0
    /\ ret.value = FromInt(100)

\* C8: a subject without components has the percentage 100:
\* calculateSubjectPercentage of the empty mapping is 100, and the entry
\* processAllSubjects produces for the subject reports the percentage 100.
C8_EmptySubjectIsHundred ==
    /\ (ret.op = "calculateSubjectPercentage" /\ Len(ret.components) = 0)
       => ret.value = FromInt(100)
    /\ ret.op = "processAllSubjects"
       => \A k \in 1..Len(ret.value) :
              Len(ret.value[k].components) = 0
              => /\ "percentage" \in DOMAIN ret.value[k]
                 /\ ret.value[k].percentage = FromInt(100)

\* C8, the failing call: calculateSubjectPercentage of the empty mapping
\* returns 0.
C8_FailingCall ==
    /\ ret.op = "calculateSubjectPercentage"
    /\ Len(ret.components) = 0
    /\ ret.value = NumZero

\* C8, the other failing call: the entry processAllSubjects produces for a
\* subject without components has no percentage.
C8_FailingEntry ==
    /\ ret.op = "processAllSubjects"
    /\ \E k \in 1..Len(ret.value) :
           /\ Len(ret.value[k].components) = 0
           /\ "percentage" \notin DOMAIN ret.value[k]
           /\ ret.value[k].status = "safe"

\* C9: getStatus(p, t) is 'safe' exactly when p >= t + 5, 'borderline'
\* exactly when t <= p < t + 5 and 'critical' exactly when p < t.
C9_StatusThreeWay ==
    ret.op = "getStatus"
    => /\ ret.value \in {"safe", "borderline", "critical"}
       /\ ret.value = "safe"
          <=> NumGe(ret.percentage, FromInt(ret.threshold + 5))
       /\ ret.value = "borderline"
          <=> /\ NumGe(ret.percentage, FromInt(ret.threshold))
              /\ NumLt(ret.percentage, FromInt(ret.threshold + 5))
       /\ ret.value = "critical"
          <=> NumLt(ret.percentage, FromInt(ret.threshold))

\* C9, its case: a percentage that equals the threshold is borderline.
C9_Witness ==
    /\ ret.op = "getStatus"
    /\ ret.threshold > 0
    /\ ret.percentage = FromInt(ret.threshold)
    /\ ret.value = "borderline"

\* The percentages a danger score is compared with: those of the input, and
\* 0, the threshold and 100.
Probes(in) ==
    Percentages(in) \cup {NumZero, FromInt(in.threshold), FromInt(100)}

\* C10: for a fixed threshold t, calculateDangerScore(p1, t) >
\* calculateDangerScore(p2, t) for all p1 < t and p2 >= t; the score does
\* not increase as p increases; and it is never negative.
C10_DangerScoreRanks ==
    ret.op = "calculateDangerScore"
    => /\ NumGe(ret.value, NumZero)
       /\ \A q \in Probes(input) :
              LET Ranked(score) ==
                      /\ (NumLt(ret.percentage, FromInt(ret.threshold))
                             /\ NumGe(q, FromInt(ret.threshold)))
                         => NumGt(ret.value, score)
                      /\ (NumLt(q, FromInt(ret.threshold))
                             /\ NumGe(ret.percentage, FromInt(ret.threshold)))
                         => NumGt(score, ret.value)
                      /\ NumLe(ret.percentage, q) => NumGe(ret.value, score)
                      /\ NumLe(q, ret.percentage) => NumGe(score, ret.value)
              IN  Ranked(calculateDangerScore(q, ret.threshold))

\* C10, its case: the score of a percentage less than 10 below the
\* threshold, in an input that also has a percentage above the threshold.
C10_Witness ==
    /\ ret.op = "calculateDangerScore"
    /\ NumLt(ret.percentage, FromInt(ret.threshold))
    /\ NumGt(ret.percentage, FromInt(ret.threshold - 10))
    /\ \E q \in Percentages(input) : NumGt(q, FromInt(ret.threshold))
    /\ NumGt(ret.value, FromInt(50))

\* C11: the mode is always 'ERP' or 'TCBR_CORRECTED'; setMode with one of
\* the two sets the mode to it, and setMode with any other value sets the
\* mode to 'ERP' whatever it was (the mode before any call is that of Init).
C11_ModeIsValid ==
    /\ attendanceMode \in Modes
    /\ ret.op = "setMode"
       => attendanceMode = (IF ret.mode \in Modes THEN ret.mode ELSE "ERP")

\* C11, its case: setMode with a value that is no mode, called in the
\* TCBR-corrected mode, has set the mode to 'ERP'.
C11_Witness ==
    /\ ret.op = "setMode"
    /\ ret.mode \notin Modes
    /\ ret.was = "TCBR_CORRECTED"
    /\ attendanceMode = "ERP"

\* Every component of the input has tcbr = 0.
AllTcbrZero(in) == \A p \in ComponentsOf(in) : ComponentAt(in, p).tcbr = 0

\* C12: when every component has tcbr = 0, the two modes agree:
\* processAllSubjects of the same raw data and threshold, called in one mode
\* and, after setMode has changed the mode, in the other, returns equal
\* results; the results of the single-component functions are among them,
\* as the entries of componentData (percentage, classesNeeded, canSkip,
\* nextClassSimulation, effectiveAttended).
C12_ModesAgree ==
    [][(/\ ret.op = "setMode"
        /\ ret.held # None
        /\ ret.was # attendanceMode
        /\ AllTcbrZero(input)
        /\ ret'.op = "processAllSubjects")
          => ret'.value = ret.held.value]_vars

\* C12, its case: the data has been processed in mode 'ERP' and the mode is
\* now 'TCBR_CORRECTED', over two components with tcbr = 0 and classes
\* missed.
C12_Witness ==
    /\ ret.op = "setMode"
    /\ ret.held # None
    /\ Len(ret.held.value) > 0
    /\ ret.was = "ERP" /\ attendanceMode = "TCBR_CORRECTED"
    /\ AllTcbrZero(input)
    /\ \E p, q \in ComponentsOf(input) :
           /\ p # q
           /\ ComponentAt(input, p).attended < ComponentAt(input, p).conducted
           /\ ComponentAt(input, q).attended > 0

\* The entries of the result of processAllSubjects that have component data
\* (the subjects with at least one component).
SimulatedEntries ==
    IF ret.op = "processAllSubjects"
    THEN {ret.value[k] : k \in {j \in 1..Len(ret.value) :
                                  "componentData" \in DOMAIN ret.value[j]}}
    ELSE {}

\* The sum of the values[k].n that are > 0, k <= n.
RECURSIVE SumOfPositive(_, _)
SumOfPositive(values, n) ==
    IF n = 0 THEN 0
    ELSE SumOfPositive(values, n - 1) + (IF values[n].n > 0 THEN values[n].n ELSE 0)

\* min(300, sum) of the components' classesNeeded that are > 0; the sum is
\* Infinity when one of them is.
CappedSumOfNeeded(componentData) ==
    IF \E k \in 1..Len(componentData) : componentData[k].classesNeeded.inf
    THEN 300
    ELSE LET sum == SumOfPositive([k \in 1..Len(componentData) |->
                                      componentData[k].classesNeeded],
                                  Len(componentData))
         IN  IF sum > 300 THEN 300 ELSE sum

\* C13: a subject's totalClassesNeeded is min(300, the sum of its
\* components' classesNeededToReachThreshold values that are > 0).
C13_TotalIsCappedSum ==
    \A e \in SimulatedEntries :
        /\ \A k \in 1..Len(e.componentData) :
               e.componentData[k].classesNeeded =
                   classesNeededToReachThreshold(e.components[k].attended,
                       e.components[k].conducted, ret.threshold,
                       e.components[k].tcbr)
        /\ e.totalClassesNeeded = CappedSumOfNeeded(e.componentData)

\* C13, its case: a subject whose two components both need classes, the
\* total being their sum.
C13_Witness ==
    \E e \in SimulatedEntries :
        /\ Len(e.componentData) = 2
        /\ \A k \in 1..2 : ~e.componentData[k].classesNeeded.inf
                            /\ e.componentData[k].classesNeeded.n > 0
        /\ e.totalClassesNeeded = e.componentData[1].classesNeeded.n
                                    + e.componentData[2].classesNeeded.n

\* The components' canSkip values, and the least of a non-empty set of
\* integers capped at 100.
SkipValues(e) == {e.componentData[k].canSkip : k \in 1..Len(e.componentData)}

CappedLeast(S) ==
    LET least == CHOOSE v \in S : \A w \in S : v <= w
    IN  IF least > 100 THEN 100 ELSE least

\* Each component's canSkip is what classesCanSkip returns for it.
SkipValuesAreComputed(e) ==
    \A k \in 1..Len(e.componentData) :
        e.componentData[k].canSkip =
            classesCanSkip(e.components[k].attended, e.components[k].conducted,
                           ret.threshold, e.components[k].tcbr)

\* C14 as stated: a subject's canSkip is the minimum over its components'
\* classesCanSkip values that are > 0, capped at 100.
C14_CanSkipIsLeastPositive ==
    \A e \in SimulatedEntries :
        {v \in SkipValues(e) : v > 0} # {}
            => e.canSkip = CappedLeast({v \in SkipValues(e) : v > 0})

\* C14, amended: a subject's canSkip is the minimum over all its
\* components' classesCanSkip values, zeros included, capped at 100.
C14_CanSkipIsLeast ==
    \A e \in SimulatedEntries :
        /\ SkipValuesAreComputed(e)
        /\ e.canSkip = CappedLeast(SkipValues(e))

\* C14, its case: a subject with a component that can skip classes and one
\* that can skip none; the subject can skip none.
C14_Witness ==
    \E e \in SimulatedEntries :
        /\ \E v \in SkipValues(e) : v > 0
        /\ 0 \in SkipValues(e)
        /\ e.canSkip = 0

\* Every component of the entry is in the unbounded skip case of
\* classesCanSkip (lines 210-213): the threshold is 0 or less, and no
\* component is below it.
AllUnbounded(e) ==
    /\ ret.threshold <= 0
    /\ \A k \in 1..Len(e.componentData) :
           ~NumLt(e.componentData[k].percentage, FromInt(ret.threshold))

C16_OneResultPerSubject ==
    ret.op = "processAllSubjects"
        => IF ret.rawData = null \/ "subjects" \notin DOMAIN ret.rawData
           THEN ret.value = << >>
           ELSE /\ Len(ret.value) = Len(ret.rawData.subjects)
                /\ Len(ret.rawData.subjects) = 0 => ret.value = << >>
                /\ \A k \in 1..Len(ret.value) :
                       /\ ret.value[k].courseCode = ret.rawData.subjects[k].courseCode
                       /\ ret.value[k].components = ret.rawData.subjects[k].components

\* C16, its case: processAllSubjects has returned the empty list for a null
\* rawData.
C16_Witness ==
    /\ ret.op = "processAllSubjects"
    /\ ret.rawData = null
    /\ ret.value = << >>

\* The raw data whose every component has 0 <= attended <= conducted and
\* 0 <= tcbr <= conducted.
CountsInRange(rawData) ==
    \A k \in 1..Len(rawData.subjects) :
        \A i \in 1..Len(rawData.subjects[k].components) :
            LET comp == rawData.subjects[k].components[i]
            IN  /\ 0 <= comp.attended /\ comp.attended <= comp.conducted
                /\ 0 <= comp.tcbr /\ comp.tcbr <= comp.conducted

\* x >= 0 for a number and for a count that may be Infinity.
NonNegative(x) == ~NumLt(x, NumZero)

CountNonNegative(x) == x.inf \/ x.n >= 0

\* C17: for raw data whose every component has 0 <= attended <= conducted
\* and 0 <= tcbr <= conducted, and a threshold in [0, 100], no number
\* processAllSubjects derives is negative, in either mode: the totals of
\* every entry, and the percentages, weakestPercentage, dangerScore,
\* classesNeeded, canSkip, totalClassesNeeded and percentageDrop of every
\* entry that has them.
C17_NothingNegative ==
    (/\ ret.op = "processAllSubjects"
     /\ ~NoSubjects(ret.rawData)
     /\ ret.threshold \in 0..100)
        => (CountsInRange(ret.rawData)
            => /\ \A k \in 1..Len(ret.value) :
                      /\ ret.value[k].totalConducted >= 0
                      /\ ret.value[k].totalAttended >= 0
                      /\ ret.value[k].totalEffectiveAttended >= 0
                      /\ ret.value[k].totalAbsent >= 0
                      /\ ret.value[k].canSkip >= 0
               /\ \A e \in SimulatedEntries :
                      /\ NonNegative(e.percentage)
                      /\ NonNegative(e.weakestPercentage)
                      /\ NonNegative(e.dangerScore)
                      /\ e.totalClassesNeeded >= 0
                      /\ \A k \in 1..Len(e.componentData) :
                             LET d == e.componentData[k]
                             IN  /\ NonNegative(d.percentage)
                                 /\ CountNonNegative(d.classesNeeded)
                                 /\ d.canSkip >= 0
                                 /\ d.effectiveAttended >= 0
                                 /\ NonNegative(d.nextClassSimulation.currentPercentage)
                                 /\ NonNegative(d.nextClassSimulation.newPercentage)
                                 /\ NonNegative(d.nextClassSimulation.percentageDrop))

\* C17, its case: in mode 'TCBR_CORRECTED', a subject below the threshold
\* with a component that has classes missed and a tcbr, for which a missed
\* class lowers the percentage.
C17_Witness ==
    /\ attendanceMode = "TCBR_CORRECTED"
    /\ ret.op = "processAllSubjects"
    /\ ret.threshold \in 0..100
    /\ ~NoSubjects(ret.rawData)
    /\ CountsInRange(ret.rawData)
    /\ \E e \in SimulatedEntries :
           /\ e.status = "critical"
           /\ \E k \in 1..Len(e.componentData) :
                  /\ e.componentData[k].tcbr > 0
                  /\ NumGt(e.componentData[k].nextClassSimulation.percentageDrop,
                           NumZero)
                  /\ CountGt0(e.componentData[k].classesNeeded)

\* Every entry of the list has the key.
Keyed(list, key) == \A k \in 1..Len(list) : key \in DOMAIN list[k]

\* sorted holds the entries of list, each once (the entries of a list of
\* results differ in their course codes).
IsPermutation(sorted, list) ==
    /\ Len(sorted) = Len(list)
    /\ \A k \in 1..Len(list) :
           Cardinality({i \in 1..Len(sorted) : sorted[i] = list[k]}) = 1

PositionIn(list, e) == CHOOSE k \in 1..Len(list) : list[k] = e

\* C18: sortSubjects(list, 'percentage'), for a list whose entries have a
\* percentage, returns a permutation of the list in ascending order of
\* percentage, and two entries of equal percentage keep their order.
C18_PercentageSortIsStable ==
    (/\ ret.op = "sortSubjects"
     /\ ret.sortBy = "percentage"
     /\ Keyed(ret.subjects, "percentage"))
        => /\ IsPermutation(ret.value, ret.subjects)
           /\ \A i, j \in 1..Len(ret.value) :
                  i < j => /\ NumLe(ret.value[i].percentage, ret.value[j].percentage)
                           /\ NumCmp(ret.value[i].percentage,
                                     ret.value[j].percentage) = 0
                                  => PositionIn(ret.subjects, ret.value[i])
                                         < PositionIn(ret.subjects, ret.value[j])

\* C18, its case: the list of percentages 90, 60, 60, 30 sorted into 30, 60,
\* 60, 90 with the two 60s in their order.
C18_Witness ==
    /\ ret.op = "sortSubjects"
    /\ ret.sortBy = "percentage"
    /\ Len(ret.subjects) = 4
    /\ [k \in 1..4 |-> ret.subjects[k].percentage]
           = << FromInt(90), FromInt(60), FromInt(60), FromInt(30) >>
    /\ ret.value = << ret.subjects[4], ret.subjects[2], ret.subjects[3],
                      ret.subjects[1] >>

\* The entry is below the threshold.
BelowThreshold(e) == NumLt(e.percentage, FromInt(input.threshold))

\* C19: sortSubjects with 'danger', with no key and with a key other than
\* 'danger', 'name' and 'percentage' returns the same result, for a list
\* whose entries have a dangerScore: a permutation of the list in descending
\* order of dangerScore, in which every entry below the threshold precedes
\* every entry at or above it.
C19_DangerIsTheDefault ==
    (/\ ret.op = "sortSubjects"
     /\ ret.sortBy \in {"danger", "undefined", "unknown"}
     /\ Keyed(ret.subjects, "dangerScore"))
        => /\ ret.value \in sortSubjects(ret.subjects, "danger")
           /\ Cardinality(sortSubjects(ret.subjects, "danger")) = 1
           /\ IsPermutation(ret.value, ret.subjects)
           /\ \A i, j \in 1..Len(ret.value) :
                  i < j => /\ NumGe(ret.value[i].dangerScore,
                                    ret.value[j].dangerScore)
                           /\ ~(BelowThreshold(ret.value[j])
                                 /\ ~BelowThreshold(ret.value[i]))

\* C19, its case: a key that is none of the three has sorted the list of the
\* example, the subjects below the threshold first.
C19_Witness ==
    /\ ret.op = "sortSubjects"
    /\ ret.sortBy = "unknown"
    /\ Len(ret.subjects) = 4
    /\ ret.value # ret.subjects
    /\ BelowThreshold(ret.value[1])
    /\ ~BelowThreshold(ret.value[4])

\* C20: calculateAggregateStats of the empty list returns totalSubjects 0,
\* averageAttendance 0, safeCount 0, borderlineCount 0, criticalCount 0 and
\* mostAtRisk null; the average is the number 0, not the NaN of 0 / 0.
C20_EmptyListStats ==
    (ret.op = "calculateAggregateStats" /\ ret.subjects = << >>)
        => ret.value = [totalSubjects |-> 0, averageAttendance |-> FromInt(0),
                        safeCount |-> 0, borderlineCount |-> 0,
                        criticalCount |-> 0, mostAtRisk |-> null]

\* C20, its case: the statistics of the empty list have been computed.
C20_Witness ==
    /\ ret.op = "calculateAggregateStats"
    /\ ret.subjects = << >>
    /\ ret.value.totalSubjects = 0
    /\ ret.value.mostAtRisk = null

\* The first position of the list with the lowest percentage.
FirstLowest(list) ==
    CHOOSE k \in 1..Len(list) :
        /\ \A j \in 1..Len(list) : NumLe(list[k].percentage, list[j].percentage)
        /\ \A j \in 1..(k - 1) : NumLt(list[k].percentage, list[j].percentage)

\* C21: for a non-empty list of subjects that have a percentage,
\* calculateAggregateStats returns as mostAtRisk the subject with the lowest
\* percentage, the first of them in list order when several share it.
C21_MostAtRiskIsFirstLowest ==
    (/\ ret.op = "calculateAggregateStats"
     /\ Len(ret.subjects) > 0
     /\ Keyed(ret.subjects, "percentage"))
        => ret.value.mostAtRisk = ret.subjects[FirstLowest(ret.subjects)]

\* C21, the failing call: the statistics of a non-empty list whose subjects
\* are all at 100 percent name no subject.
C21_FailingCall ==
    /\ ret.op = "calculateAggregateStats"
    /\ Len(ret.subjects) > 0
    /\ Keyed(ret.subjects, "percentage")
    /\ \A k \in 1..Len(ret.subjects) :
           NumCmp(ret.subjects[k].percentage, FromInt(100)) = 0
    /\ ret.value.mostAtRisk = null

\* C21, where the code agrees: whenever some subject of the list is below
\* 100 percent, mostAtRisk is the first subject of the lowest percentage.
C21_FirstLowestBelowHundred ==
    (/\ ret.op = "calculateAggregateStats"
     /\ Len(ret.subjects) > 0
     /\ Keyed(ret.subjects, "percentage")
     /\ \E k \in 1..Len(ret.subjects) :
            NumLt(ret.subjects[k].percentage, FromInt(100)))
        => ret.value.mostAtRisk = ret.subjects[FirstLowest(ret.subjects)]

\* C22: for a subject with at least one component, weakestComponent is the
\* label of a component whose percentage is the lowest among the subject's
\* components, and weakestPercentage is that component's percentage.
C22_WeakestIsLowest ==
    \A e \in SimulatedEntries :
        \E k \in 1..Len(e.componentData) :
            /\ e.weakestComponent = e.componentData[k].type
            /\ \A j \in 1..Len(e.componentData) :
                   NumLe(e.componentData[k].percentage,
                         e.componentData[j].percentage)
            /\ e.weakestPercentage = e.componentData[k].percentage

\* C22, the failing call: a subject whose components are all at 100 percent
\* has no weakest component, although at threshold 100 missing the next
\* class of a component would take it below the threshold.
C22_FailingCall ==
    \E e \in SimulatedEntries :
        /\ \A k \in 1..Len(e.componentData) :
               NumCmp(e.componentData[k].percentage, FromInt(100)) = 0
        /\ e.weakestComponent = "null"
        /\ \E k \in 1..Len(e.componentData) :
               e.componentData[k].nextClassSimulation.wouldFallBelowThreshold

\* The percentage of the entry's aggregated totals.
PercentageOfTotals(e) ==
    calculateComponentPercentage(e.totalAttended, e.totalConducted, 0)

\* The entry has two components, each with classes conducted, with
\* 0 <= attended <= conducted, and counted as attended (no tcbr added).
TwoPlainComponents(e) ==
    /\ Len(e.componentData) = 2
    /\ \A k \in 1..2 :
           /\ e.componentData[k].conducted > 0
           /\ 0 <= e.componentData[k].attended
           /\ e.componentData[k].attended <= e.componentData[k].conducted
           /\ e.componentData[k].effectiveAttended = e.componentData[k].attended

SettingsOf(r) ==
    [theme |-> r.theme, threshold |-> r.threshold, sortBy |-> r.sortBy,
     attendanceMode |-> r.attendanceMode]

\* C25: after saveSettings has stored the popup's settings, a loadSettings
\* run from the default state restores exactly the stored theme, threshold
\* (0 included), sortBy and attendanceMode.
C25_SettingsRoundTrip ==
    (ret.op = "init" /\ "threshold" \in DOMAIN storage)
        => SettingsOf(state) = SettingsOf(storage)

\* C25, the failing call: the popup opened on a stored threshold 0 has the
\* default threshold 75.
C25_FailingCall ==
    /\ ret.op = "init"
    /\ "threshold" \in DOMAIN storage
    /\ storage.threshold = 0
    /\ state.threshold = 75

\* The component records of the answer the content script has given.
EmittedComponents ==
    IF ret.op = "fetchAttendance" /\ ret.response.success
    THEN UNION {{ret.response.data.subjects[i].components[j] :
                    j \in 1..Len(ret.response.data.subjects[i].components)} :
                i \in 1..Len(ret.response.data.subjects)}
    ELSE {}

\* C26: every component record scrapeAttendanceData emits consists of
\* three non-negative integers with attended <= conducted,
\* tcbr <= conducted and conducted <= 300.
C26_EmittedCountsInRange ==
    \A c \in EmittedComponents :
        /\ c.conducted \in 0..300
        /\ c.attended \in 0..c.conducted
        /\ c.tcbr \in 0..c.conducted

\* The scrape of a row whose tcbr cell reads '-3': the row passes
\* validateRowData and its component is emitted with tcbr = -3.
C26_FailingCall ==
    /\ ret.op = "fetchAttendance"
    /\ ret.response.success
    /\ \E c \in EmittedComponents :
          c.conducted = 10 /\ c.attended = 5 /\ c.tcbr = -3

\* The card created is that of a subject below the threshold with a
\* component whose classesNeeded is Infinity.
CardOfUnreachable ==
    /\ ret.op = "createSubjectCard"
    /\ "percentage" \in DOMAIN ret.subject
    /\ ret.subject.status = "critical"
         \/ NumLt(ret.subject.percentage, FromInt(ret.threshold))
    /\ \E k \in 1..Len(ret.subject.componentData) :
          ret.subject.componentData[k].classesNeeded = Infinity

\* C27: the card of a below-threshold subject with a component whose
\* classesNeededToReachThreshold is Infinity shows the 'Impossible to
\* reach' message, not a number of classes to attend.
C27_ImpossibleIsShown ==
    CardOfUnreachable => ret.value.action.kind = "impossible"

\* The card of a subject with 3 of 5 classes attended at threshold 100:
\* the component needs Infinity, the subject's total is 300, and the card
\* reads 'Attend 200+ more classes'.
C27_FailingCall ==
    /\ CardOfUnreachable
    /\ ret.threshold = 100
    /\ ret.subject.totalClassesNeeded = 300
    /\ ret.value.action = [kind |-> "attend", capped |-> TRUE, n |-> 200]
    /\ ret.value.items[1].action = "impossible"

\* The entries of componentData in the result of processAllSubjects.
SimulatedData ==
    UNION {{e.componentData[k] : k \in 1..Len(e.componentData)} :
              e \in SimulatedEntries}

\* The component has the counts of a scraped row, the threshold is in
\* [0, 100] and the component's percentage is not below it.
AtOrAboveThreshold(d) ==
    /\ ScrapedRow(d)
    /\ ret.threshold \in 0..100
    /\ ~NumLt(d.percentage, FromInt(ret.threshold))

\* C28: for a component with 0 <= attended <= conducted,
\* 0 <= tcbr <= conducted, a threshold in [0, 100] and a percentage at or
\* above it, classesCanSkip is >= 1 exactly when simulateMissNextClass
\* reports wouldFallBelowThreshold = false, and newPercentage is the
\* percentage of conducted + 1 classes with attended unchanged.
C28_SkipAgreesWithSimulation ==
    \A d \in SimulatedData :
        AtOrAboveThreshold(d) =>
            /\ (d.canSkip >= 1) <=> ~d.nextClassSimulation.wouldFallBelowThreshold
            /\ d.nextClassSimulation.newPercentage
                   = calculateComponentPercentage(d.attended, d.conducted + 1, d.tcbr)

\* 1 of 4 attended at threshold 20: missing the next class leaves 1 of 5,
\* exactly 20%, yet classesCanSkip returns 0.
C28_FailingCall ==
    \E d \in SimulatedData :
        /\ AtOrAboveThreshold(d)
        /\ d.attended = 1 /\ d.conducted = 4 /\ d.tcbr = 0 /\ ret.threshold = 20
        /\ d.canSkip = 0
        /\ ~d.nextClassSimulation.wouldFallBelowThreshold
        /\ d.nextClassSimulation.newPercentage = FromInt(20)

\* The step is the end of a fetch in the catch block.
FetchHasFailed == ret'.op = "fetchAttendanceData" /\ ret'.step = "failed"

\* The step is a step of a fetch short of its successful end.
FetchHasNotSucceeded == ret'.op = "fetchAttendanceData" /\ ret'.step # "succeeded"

\* C29: a fetch that fails (no active tab, a tab off the ERP site, the
\* message rejected, no response, an unsuccessful response) leaves
\* state.attendanceData and state.lastFetched as they were and writes
\* nothing to storage, at each of its steps, and ends showing the error
\* view.
C29_FailedFetchKeepsData ==
    [][/\ FetchHasNotSucceeded =>
              /\ state'.attendanceData = state.attendanceData
              /\ state'.lastFetched = state.lastFetched
              /\ storage' = storage
       /\ FetchHasFailed => views' \cap ViewNames = {"error"}]_vars

\* A fetch has failed after an earlier one had succeeded: the data and the
\* time of the earlier one are in the state and in storage, and the error
\* view is shown.
C29_Witness ==
    /\ ret.op = "fetchAttendanceData" /\ ret.step = "failed"
    /\ state.attendanceData # null
    /\ state.lastFetched # null
    /\ "lastData" \in DOMAIN storage
    /\ storage.lastData.data = state.attendanceData
    /\ views \cap ViewNames = {"error"}

\* The step is the end of a fetch, in the try block or in the catch block.
FetchHasEnded ==
    ret'.op = "fetchAttendanceData" /\ ret'.step \in {"failed", "succeeded"}

\* C30: under every interleaving of fetches and saves of the settings, a
\* fetch ends by showing the results view or the error view, the loading
\* view is not shown when no fetch is pending, and at most one of the four
\* views is visible.
C30_NeverLeftLoading ==
    /\ [](pending = << >> => "loading" \notin views)
    /\ [](Cardinality(views \cap ViewNames) <= 1)
    /\ [][FetchHasEnded => views' \cap ViewNames \in {{"results"}, {"error"}}]_vars

\* A fetch has ended with the results shown while another one, started
\* before it ended, is still pending, after a save of the settings.
C30_Witness ==
    /\ ret.op = "fetchAttendanceData" /\ ret.step = "succeeded"
    /\ Len(pending) = 1
    /\ state.threshold = 80
    /\ views \cap ViewNames = {"results"}

====
